---- MODULE Spec2Model ----
(***************************************************************************)
(* Rebill invoice generator: the form <-> document synchronisation, the   *)
(* deep merge used by JSON import, the totals calculator, the validation  *)
(* gate and the draft / history stores.                                   *)
(*                                                                         *)
(* JavaScript values are tagged records, so that the type tests of the    *)
(* code (Array.isArray, typeof v === 'object', truthiness) are operators. *)
(* A string is either a non-numeric text JStr(s) or the decimal numeral   *)
(* of a number, JNumeral(n); String(n) and parseFloat convert between     *)
(* JNum and JNumeral.  Numbers are exact decimals with two places, held   *)
(* in hundredths (2 is 200): binary floating-point rounding is not        *)
(* modelled.                                                               *)
(***************************************************************************)
EXTENDS Integers, Sequences, FiniteSets, TLC

VARIABLES
    variant,          \* which deepMerge of storage.js is bundled: "simple" | "strict"
    merge,            \* the deepMerge call under study (target, source, result)
    objectPrototype,  \* own properties added to the shared Object.prototype
    build,            \* "modules" (src/js/main.js and modules) | "script" (script.js)
    history,          \* localStorage slot invoice.history: JNull when absent
    now,              \* the clock read by Date.now()
    ops,              \* number of events delivered so far
    saved,            \* how many fresh numbers were saved; pure: nothing else happened
    form,             \* the value of every form field, by element id
    rows,             \* the .item-row elements of #itemsContainer, in order
    visible,          \* #invoice has style.display === 'block'
    preview,          \* the document renderInvoice wrote into #invoice last
    draft,            \* localStorage slot invoice.draft.v1: JNull when absent
    lastNumber,       \* localStorage slot invoice.lastNumber: JNull when absent
    jsonData,         \* the text of the #jsonData textarea
    isApplyingData,   \* the flag of main.js
    storeWorks,       \* FALSE: localStorage.setItem throws (quota, private mode)
    file,             \* the JSON file the user downloaded last: JNull when none
    pdf,              \* pdf.js: its version, the two buttons, the calls under way
    last              \* the event handled last: operation, arguments, effects

mergeVars == <<variant, merge, objectPrototype>>

historyVars == <<build, history, now, saved>>

appVars == <<form, rows, visible, preview, draft, lastNumber, jsonData,
             isApplyingData, storeWorks, file, pdf>>

vars == <<variant, merge, objectPrototype, build, history, now, saved, ops, last,
          form, rows, visible, preview, draft, lastNumber, jsonData,
          isApplyingData, storeWorks, file, pdf>>

-----------------------------------------------------------------------------
(* Bounds *)

MaxDepth == 3         \* nesting depth of the JSON sources handed to deepMerge

PrefillCount == 49    \* entries of the history found at page load, when not empty

MaxHistoryOps == 4    \* events delivered to the history store in one run

MaxOps == 2           \* events delivered to the page after it has loaded

MaxRows == 2          \* item rows the user keeps in the form

TripOps == 3          \* events of a bill / download / reset / import session

TemplateOps == 2      \* events of an import / history load / PDF export session

MalformedOps == 3     \* events on a page loaded over malformed stored data

MaxPdfOps == 4        \* clicks on the PDF buttons and completions of their calls

-----------------------------------------------------------------------------
(* JavaScript values *)

Undefined == [t |-> "undefined"]
JNull == [t |-> "null"]
JBool(b) == [t |-> "boolean", b |-> b]
JNum(n) == [t |-> "number", n |-> n]
JStr(s) == [t |-> "string", s |-> s]
JNumeral(n) == [t |-> "numeral", n |-> n]
JArr(e) == [t |-> "array", e |-> e]
JObj(f) == [t |-> "object", f |-> f]

EmptyObject == JObj([k \in {} |-> Undefined])

\* Array.isArray(v)
IsArray(v) == v.t = "array"

\* v && typeof v === 'object' for a value that is not an array
IsPlainObject(v) == v.t = "object"

\* v && typeof v === 'object'
IsObjectLike(v) == v.t \in {"object", "array"}

\* Object.keys(o): the own enumerable keys of a plain object
OwnKeys(o) == DOMAIN o.f

\* o[key] = value on a plain object
Put(o, key, value) ==
    JObj([k \in (OwnKeys(o) \cup {key}) |-> IF k = key THEN value ELSE o.f[k]])

\* the names of the indices 0, 1, 2, 3 of an array, as Object.keys gives them
IndexKeys == <<"0", "1", "2", "3">>

\* the properties an array got besides its elements (a[key] = value with a
\* key that is no index); JSON.parse gives arrays without any
NamedProps(a) == IF "f" \in DOMAIN a THEN a.f ELSE EmptyObject.f

\* the array with the elements e and the named properties f
ArrayWith(e, f) ==
    IF DOMAIN f = {} THEN JArr(e) ELSE [t |-> "array", e |-> e, f |-> f]

\* Object.keys(o) as a set, for a plain object or an array
EnumerableKeys(o) ==
    IF IsArray(o)
    THEN {IndexKeys[i] : i \in DOMAIN o.e} \cup DOMAIN NamedProps(o)
    ELSE OwnKeys(o)

\* o[key] for an own enumerable key of a plain object or an array
Read(o, key) ==
    IF ~IsArray(o) THEN o.f[key]
    ELSE IF key \in DOMAIN NamedProps(o) THEN NamedProps(o)[key]
    ELSE o.e[CHOOSE i \in DOMAIN o.e : IndexKeys[i] = key]

\* o[key] = value on a plain object or an array: on an array the name of an
\* element replaces that element, the name of the index after the last one
\* appends, and any other key becomes a named property
Assign(o, key, value) ==
    IF ~IsArray(o) THEN Put(o, key, value)
    ELSE IF \E i \in DOMAIN o.e : IndexKeys[i] = key
    THEN ArrayWith([o.e EXCEPT ![CHOOSE i \in DOMAIN o.e : IndexKeys[i] = key] = value],
                   NamedProps(o))
    ELSE IF Len(o.e) < Len(IndexKeys) /\ IndexKeys[Len(o.e) + 1] = key
    THEN ArrayWith(Append(o.e, value), NamedProps(o))
    ELSE ArrayWith(o.e, Put(JObj(NamedProps(o)), key, value).f)

\* The keys Object.prototype itself carries; every plain object and array
\* inherits them, so `k in obj` is true for them on any object.
ObjectPrototypeKeys ==
    {"__proto__", "constructor", "toString", "valueOf", "hasOwnProperty"}

\* k in obj
HasProperty(obj, k, proto) ==
    \/ (IsPlainObject(obj) /\ k \in OwnKeys(obj))
    \/ k \in ObjectPrototypeKeys
    \/ k \in OwnKeys(proto)

\* Object.values(obj)
ObjectValues(obj) ==
    IF IsArray(obj) THEN {obj.e[i] : i \in DOMAIN obj.e}
    ELSE {obj.f[k] : k \in OwnKeys(obj)}

\* o?.key : undefined when o is not an object or has no such own key
Get(o, key) ==
    IF IsPlainObject(o) /\ key \in OwnKeys(o) THEN o.f[key] ELSE Undefined

\* truthiness: undefined, null, false, 0 and "" are falsy
Truthy(v) ==
    CASE v.t = "undefined" -> FALSE
      [] v.t = "null" -> FALSE
      [] v.t = "boolean" -> v.b
      [] v.t = "number" -> v.n # 0
      [] v.t = "string" -> v.s # ""
      [] v.t = "nan" -> FALSE
      [] OTHER -> TRUE

\* a || b
OrElse(a, b) == IF Truthy(a) THEN a ELSE b

\* a ?? b
Coalesce(a, b) == IF a.t \in {"undefined", "null"} THEN b ELSE a

\* const x = v; F(x): v is evaluated once and F works on its value
Bind(v, F(_)) == CHOOSE r \in {F(x) : x \in {v}} : TRUE

\* the event record before any event.  trace lists the effects in the
\* order they happened; synced .. syncTrace describe the syncFromForm call
\* of the event: its options, isInvoiceVisible() at collection, the
\* document returned, the draft slot at return and the effects of the call;
\* before lists the events handled earlier, by operation and argument;
\* template is the template a PDF export of the event laid the document
\* out with
NoEvent == [op |-> "none", arg |-> Undefined, alerts |-> 0, trace |-> <<>>,
            synced |-> FALSE, options |-> Undefined, shown |-> FALSE,
            returned |-> Undefined, stored |-> JNull, syncTrace |-> <<>>,
            before |-> <<>>, template |-> "none"]

Event(op, arg) == [NoEvent EXCEPT !.op = op, !.arg = arg]

\* what before keeps of an event
Earlier(ev) == [op |-> ev.op, arg |-> ev.arg]

\* the ids of the form fields getDataFromForm reads
FieldIds ==
    {"sellerName", "sellerAddress", "sellerEmail", "sellerPhone",
     "billToName", "billToAddress", "billToEmail", "billToPhone",
     "invoiceTitle", "invoiceDate", "invoiceDueDate", "invoiceNumber",
     "currencyCode", "taxRate", "discountAmount",
     "invoiceNotes", "invoiceInstructions"}

\* the form of the page as served: no field filled, no item row
BlankForm == [id \in FieldIds |-> JStr("")]

\* the label of #downloadBtn in the page markup
DownloadLabel == "Download PDF"

\* the label of #shareBtn in the page markup: the outbox emoji and " Share"
ShareLabel == "U+1F4E4 Share"

\* pdf.js before any click: both buttons idle, no call under way.  module
\* is the version bundled: "pdfmake", "templates" (pdfmake with the
\* template registry) or "jspdf"
NoPdf ==
    [module |-> "pdfmake",
     downloadBtn |-> [textContent |-> DownloadLabel, disabled |-> FALSE],
     shareBtn |-> [textContent |-> ShareLabel, disabled |-> FALSE],
     originalBtnText |-> "",
     pending |-> {}]

\* the page and the store when the page plays no part in the study
NoPage ==
    /\ form = BlankForm
    /\ rows = <<>>
    /\ visible = FALSE
    /\ preview = Undefined
    /\ draft = JNull
    /\ lastNumber = JNull
    /\ jsonData = JStr("")
    /\ isApplyingData = FALSE
    /\ storeWorks = TRUE
    /\ file = JNull
    /\ pdf = NoPdf

-----------------------------------------------------------------------------
(* storage.js: deepMerge, simple and strict *)

UNSAFE_KEYS_one == {"__proto__"}

UNSAFE_KEYS == {"__proto__", "constructor", "prototype"}

\* The order in which forEach visits the keys.  Object.keys gives the index
\* names first and then insertion
\* order, which a finite function does not carry; the guarded merge writes
\* each key to a different place, so any fixed order gives the same result.
KeyOrder ==
    <<"0", "1", "2", "3", "__proto__", "constructor", "prototype", "name", "items", "address",
      "email", "phone", "bank", "accountNo", "ifsc", "title", "date",
      "dueDate", "number", "notes", "instructions", "terms", "currency",
      "locale", "templateId", "schemaVersion", "settings", "seller",
      "billTo", "invoice", "totals", "meta", "subtotal", "taxRate",
      "taxAmount", "discount", "total", "balanceDue", "updatedAt",
      "showInvoice", "description", "quantity", "unitPrice", "polluted">>

RECURSIVE hasUnsafeKeys(_, _)
hasUnsafeKeys(obj, proto) ==
    /\ IsObjectLike(obj)
    /\ \/ \E k \in UNSAFE_KEYS : HasProperty(obj, k, proto)
       \/ \E v \in ObjectValues(obj) : IsObjectLike(v) /\ hasUnsafeKeys(v, proto)

RECURSIVE deepMerge(_, _, _, _), MergeKeys(_, _, _, _)

MergeKey_overwrite(acc, source, key, strict) ==
    IF key \in UNSAFE_KEYS THEN acc
    ELSE [o |-> Assign(acc.o, key, Read(source, key)), p |-> acc.p]

\* One iteration of the forEach body.  acc = [o |-> target, p |-> shared
\* prototype].  A write to the key "__proto__" goes through the accessor of
\* Object.prototype: target["__proto__"] reads the shared prototype, and an
\* assignment of a non-object is ignored.
MergeKey(acc, source, key, strict) ==
    LET target == acc.o
        value == Read(source, key)
    IN  IF key \in UNSAFE_KEYS THEN acc
        ELSE IF IsArray(value) THEN
            IF key = "__proto__" THEN acc
            ELSE [o |-> Assign(target, key, JArr(value.e)), p |-> acc.p]
        ELSE IF IsPlainObject(value) THEN
            IF strict /\ hasUnsafeKeys(value, acc.p) THEN acc
            ELSE IF key = "__proto__" THEN
                [o |-> target, p |-> deepMerge(acc.p, value, acc.p, strict).o]
            ELSE
                LET cur == IF /\ key \in EnumerableKeys(target)
                              /\ IsObjectLike(Read(target, key))
                           THEN Read(target, key) ELSE EmptyObject
                IN  Bind(deepMerge(cur, value, acc.p, strict), LAMBDA sub :
                         [o |-> Assign(target, key, sub.o), p |-> sub.p])
        ELSE
            IF key = "__proto__" THEN acc
            ELSE [o |-> Assign(target, key, value), p |-> acc.p]

\* Object.keys(source), as a sequence in visiting order
ObjectKeys(source) ==
    LET Own(k) == k \in EnumerableKeys(source)
    IN  SelectSeq(KeyOrder, Own)

MergeKeys(acc, source, keys, strict) ==
    IF keys = <<>> THEN acc
    ELSE Bind(MergeKey(acc, source, Head(keys), strict), LAMBDA merged :
              MergeKeys(merged, source, Tail(keys), strict))

\* deepMerge(target, source) with the shared prototype threaded through;
\* the result is [o |-> the target after the merge, p |-> the prototype].
deepMerge(target, source, proto, strict) ==
    IF ~IsObjectLike(source) THEN [o |-> target, p |-> proto]
    ELSE MergeKeys([o |-> target, p |-> proto], source, ObjectKeys(source), strict)

-----------------------------------------------------------------------------
(* Inputs of the deepMerge study: JSON.parse results of bounded depth *)

MergeKeyNames == {"name", "__proto__", "constructor", "prototype"}

Leaves == {JStr("x")}

\* objects with exactly the keys ks, values in V
ObjectsWithKeys(ks, V) == {JObj(f) : f \in [ks -> V]}

RECURSIVE JsonValues(_)
JsonValues(d) ==
    IF d = 0 THEN Leaves
    ELSE LET V == JsonValues(d - 1)
         IN  Leaves
             \cup {EmptyObject, JArr(<<>>)}
             \cup UNION {ObjectsWithKeys({k}, V) : k \in MergeKeyNames}
             \cup {JArr(<<v>>) : v \in V}

\* what JSON.parse can hand to deepMerge as the source: an object with one
\* key, or with the key "name" next to an unsafe key, or an array, or a
\* scalar
MergeSources ==
    LET V == JsonValues(MaxDepth - 1)
    IN  {EmptyObject, JNull, JStr("x"), JArr(<<>>)}
        \cup {JArr(<<v>>) : v \in JsonValues(1)}
        \cup UNION {ObjectsWithKeys({k}, V) : k \in MergeKeyNames}
        \cup {JObj([j \in {"name", k} |-> IF j = "name" THEN n ELSE v]) :
                 k \in MergeKeyNames \ {"name"}, n \in JsonValues(1), v \in V}

MergeTargets ==
    {EmptyObject,
     JObj([k \in {"name"} |-> JStr("old")]),
     JObj([k \in {"name"} |-> JArr(<<JStr("old")>>)]),
     JObj([k \in {"name"} |-> JObj([j \in {"name"} |-> JStr("old")])])}

NoCall == [done |-> FALSE, target |-> EmptyObject, source |-> EmptyObject,
           result |-> EmptyObject]

InitMerge ==
    /\ variant \in {"simple", "strict"}
    /\ \E t \in MergeTargets, s \in MergeSources :
          merge = [done |-> FALSE, target |-> t, source |-> s, result |-> t]
    /\ objectPrototype = EmptyObject
    /\ build = "modules"
    /\ history = JNull
    /\ now = 0
    /\ saved = [n |-> 0, pure |-> TRUE]
    /\ ops = 0
    /\ last = NoEvent
    /\ NoPage

\* const merged = deepMerge(target, source)
Merge ==
    /\ ~merge.done
    /\ LET r == deepMerge(merge.target, merge.source, objectPrototype,
                          variant = "strict")
       IN  /\ merge' = [merge EXCEPT !.done = TRUE, !.result = r.o]
           /\ objectPrototype' = r.p
    /\ UNCHANGED <<variant, historyVars, ops, last, appVars>>

NextMerge == Merge

SpecMerge == InitMerge /\ [][NextMerge]_vars

-----------------------------------------------------------------------------
(* formatters.js, dom.js: numbers and texts *)

NaN == [t |-> "nan"]

\* new Date().toISOString().split('T')[0]
Today == JStr("today")

\* new Date().toISOString() at clock reading t
JIso(t) == [t |-> "isotime", n |-> t]

\* the number i, in hundredths
Num(i) == JNum(i * 100)

\* the text a user types for the number i
Numeral(i) == JNumeral(i * 100)

\* parseFloat(value): a numeral (or a number) parses, other texts do not
parseFloat(value) ==
    IF value.t \in {"numeral", "number"} THEN JNum(value.n) ELSE NaN

\* parseNumber(value, fallback)
parseNumber(value, fallback) ==
    LET num == parseFloat(value)
    IN  IF num.t = "number" THEN num ELSE fallback

\* String(v), as done by the assignment el.value = v
ToText(v) ==
    CASE v.t = "number" -> JNumeral(v.n)
      [] v.t = "boolean" -> JStr(IF v.b THEN "true" ELSE "false")
      [] v.t \in {"null", "undefined"} -> JStr("")
      [] v.t = "object" -> JStr("[object Object]")
      [] v.t = "array" -> JStr("[array]")
      [] OTHER -> v

\* setValue(id, value): el.value = value ?? ''
setValue(frm, id, value) == [frm EXCEPT ![id] = ToText(Coalesce(value, JStr("")))]

\* the value an <input type="number"> keeps when v is assigned to it:
\* anything that is not a number is dropped
NumberInput(v) == IF ToText(v).t = "numeral" THEN ToText(v) ELSE JStr("")

\* s.trim(); " " is the only text with outer white space that is typed
trim(v) == IF v = JStr(" ") THEN JStr("") ELSE v

\* a * b and a / 100 on numbers held in hundredths
Times(a, b) == JNum((a.n * b.n) \div 100)

Over100(a) == JNum(a.n \div 100)

Plus(a, b) == JNum(a.n + b.n)

Minus(a, b) == JNum(a.n - b.n)

\* ToNumber(v), for the comparisons > 0 and >= 0
ToNumber(v) ==
    CASE v.t \in {"number", "numeral"} -> JNum(v.n)
      [] v.t = "null" -> JNum(0)
      [] v.t = "boolean" -> JNum(IF v.b THEN 100 ELSE 0)
      [] v = JStr("") \/ v = JStr(" ") -> JNum(0)
      [] OTHER -> NaN

-----------------------------------------------------------------------------
(* calculations.js, items.js, form.js: from the form to the document *)

\* items.reduce((sum, item) => sum + item.total, 0)
RECURSIVE SumTotals(_)
SumTotals(items) ==
    IF items = <<>> THEN JNum(0)
    ELSE Plus(SumTotals(SubSeq(items, 1, Len(items) - 1)),
              Get(items[Len(items)], "total"))

calculateTotals_clamped(items, taxRate, discount) ==
    Bind(SumTotals(items), LAMBDA subtotal :
    Bind(Times(subtotal, Over100(taxRate)), LAMBDA taxAmount :
    Bind(IF Minus(Plus(subtotal, taxAmount), discount).n < 0 THEN JNum(0)
         ELSE Minus(Plus(subtotal, taxAmount), discount), LAMBDA total :
        JObj([subtotal |-> subtotal, taxRate |-> taxRate, taxAmount |-> taxAmount,
              discount |-> discount, total |-> total, balanceDue |-> total]))))

calculateTotals(items, taxRate, discount) ==
    Bind(SumTotals(items), LAMBDA subtotal :
    Bind(Times(subtotal, Over100(taxRate)), LAMBDA taxAmount :
    Bind(Minus(Plus(subtotal, taxAmount), discount), LAMBDA total :
        JObj([subtotal |-> subtotal, taxRate |-> taxRate, taxAmount |-> taxAmount,
              discount |-> discount, total |-> total, balanceDue |-> total]))))

\* the item collectItemsFromForm builds from one row
CollectRow(row) ==
    LET description == trim(row.description)
        quantity == parseNumber(row.quantity, JNum(0))
        unitPrice == parseNumber(row.unitPrice, JNum(0))
        total == Times(quantity, unitPrice)
    IN  JObj([description |-> description, quantity |-> quantity,
              unitPrice |-> unitPrice, total |-> total])

collectItemsFromForm(rws) == JArr([i \in DOMAIN rws |-> CollectRow(rws[i])])

\* getDataFromForm() at clock reading t; shown = isInvoiceVisible()
getDataFromForm(frm, rws, shown, t) ==
    Bind(JObj([currency |-> OrElse(trim(frm.currencyCode), JStr("INR")),
               locale |-> JStr("en-IN")]), LAMBDA settings :
    Bind(collectItemsFromForm(rws), LAMBDA items :
    Bind(parseNumber(frm.taxRate, JNum(0)), LAMBDA taxRate :
    Bind(parseNumber(frm.discountAmount, JNum(0)), LAMBDA discount :
    Bind(calculateTotals(items.e, taxRate, discount), LAMBDA totals :
         JObj([schemaVersion |-> Num(1),
              settings |-> settings,
              seller |-> JObj([name |-> frm.sellerName, address |-> frm.sellerAddress,
                               email |-> frm.sellerEmail, phone |-> frm.sellerPhone]),
              billTo |-> JObj([name |-> frm.billToName, address |-> frm.billToAddress,
                               email |-> frm.billToEmail, phone |-> frm.billToPhone]),
              invoice |-> JObj([title |-> frm.invoiceTitle, date |-> frm.invoiceDate,
                                dueDate |-> frm.invoiceDueDate,
                                number |-> frm.invoiceNumber,
                                notes |-> frm.invoiceNotes,
                                instructions |-> frm.invoiceInstructions]),
              items |-> items,
              totals |-> totals,
              meta |-> JObj([updatedAt |-> JIso(t), showInvoice |-> JBool(shown)])]))))))

\* item.description && item.quantity > 0 && item.unitPrice >= 0
ValidItem(item) ==
    /\ Truthy(Get(item, "description"))
    /\ ToNumber(Get(item, "quantity")).t = "number"
    /\ ToNumber(Get(item, "quantity")).n > 0
    /\ ToNumber(Get(item, "unitPrice")).t = "number"
    /\ ToNumber(Get(item, "unitPrice")).n >= 0

validateData_noAddress(data) ==
    /\ Truthy(Get(Get(data, "seller"), "name"))
    /\ Truthy(Get(Get(data, "seller"), "address"))
    /\ Truthy(Get(Get(data, "billTo"), "name"))
    /\ Truthy(Get(Get(data, "invoice"), "date"))
    /\ Truthy(Get(Get(data, "invoice"), "number"))
    /\ IsArray(Get(data, "items"))
    /\ \E i \in DOMAIN Get(data, "items").e : ValidItem(Get(data, "items").e[i])

validateData(data) ==
    /\ Truthy(Get(Get(data, "seller"), "name"))
    /\ Truthy(Get(Get(data, "seller"), "address"))
    /\ Truthy(Get(Get(data, "billTo"), "name"))
    /\ Truthy(Get(Get(data, "billTo"), "address"))
    /\ Truthy(Get(Get(data, "invoice"), "date"))
    /\ Truthy(Get(Get(data, "invoice"), "number"))
    /\ IsArray(Get(data, "items"))
    /\ Len(Get(data, "items").e) # 0
    /\ \E i \in DOMAIN Get(data, "items").e : ValidItem(Get(data, "items").e[i])

-----------------------------------------------------------------------------
(* history.js (modules) and script.js: the history store *)

HistoryLimit == 50

\* getHistory(): the stored array, [] when the slot is absent
getHistory(slot) == IF IsArray(slot) THEN slot.e ELSE <<>>

HistoryEntry_seller(data, t) ==
    JObj([id |-> JNum(t),
          date |-> OrElse(Get(Get(data, "invoice"), "date"), Today),
          number |-> OrElse(Get(Get(data, "invoice"), "number"), JStr("")),
          customerName |-> OrElse(Get(Get(data, "seller"), "name"), JStr("")),
          total |-> OrElse(Get(Get(data, "totals"), "total"), JNum(0)),
          currency |-> OrElse(Get(Get(data, "settings"), "currency"), JStr("INR")),
          data |-> data])

\* modules: the entry saveToHistory builds; id = Date.now()
HistoryEntry(data, t) ==
    JObj([id |-> JNum(t),
          date |-> OrElse(Get(Get(data, "invoice"), "date"), Today),
          number |-> OrElse(Get(Get(data, "invoice"), "number"), JStr("")),
          customerName |-> OrElse(Get(Get(data, "billTo"), "name"), JStr("")),
          total |-> OrElse(Get(Get(data, "totals"), "total"), JNum(0)),
          currency |-> OrElse(Get(Get(data, "settings"), "currency"), JStr("INR")),
          data |-> data])

\* script.js: the entry saveToHistory builds
ScriptHistoryEntry(data, t) ==
    JObj([id |-> JNum(t),
          invoiceNumber |-> Get(Get(data, "invoice"), "number"),
          customerName |-> Get(Get(data, "billTo"), "name"),
          total |-> Get(Get(data, "totals"), "total"),
          currency |-> Get(Get(data, "settings"), "currency"),
          date |-> Get(Get(data, "invoice"), "date"),
          savedAt |-> JIso(t),
          data |-> data])

existingIndex_none(h, entry) == 0

\* history.findIndex(h => h.number === entry.number && entry.number),
\* 1-based; 0 stands for -1
existingIndex(h, entry) ==
    LET hits == {i \in DOMAIN h : /\ Get(h[i], "number") = Get(entry, "number")
                                  /\ Truthy(Get(entry, "number"))}
    IN  IF hits = {} THEN 0 ELSE CHOOSE i \in hits : \A j \in hits : i <= j

ReplaceAt_first(h, i, entry) == [h EXCEPT ![1] = entry]

\* history[existingIndex] = entry
ReplaceAt(h, i, entry) == [h EXCEPT ![i] = entry]

Trim_none(h) == h

\* history.slice(0, 50)
Trim(h) == SubSeq(h, 1, IF Len(h) < HistoryLimit THEN Len(h) ELSE HistoryLimit)

\* modules saveToHistory(data): the array written to the slot
saveToHistory(slot, data, t) ==
    LET h == getHistory(slot)
        entry == HistoryEntry(data, t)
        i == existingIndex(h, entry)
    IN  JArr(Trim(IF i >= 1 THEN ReplaceAt(h, i, entry) ELSE <<entry>> \o h))

\* script.js saveToHistory(data): the slot afterwards; shouldOverwrite is
\* the answer to the confirm dialog shown when the number already exists
scriptSaveToHistory(slot, data, t, shouldOverwrite) ==
    LET h == getHistory(slot)
        invoiceNumber == Get(Get(data, "invoice"), "number")
        existing == \E i \in DOMAIN h : Get(h[i], "invoiceNumber") = invoiceNumber
        entry == ScriptHistoryEntry(data, t)
        Other(e) == Get(e, "invoiceNumber") # Get(entry, "invoiceNumber")
    IN  IF existing /\ ~shouldOverwrite THEN slot
        ELSE JArr(Trim(<<entry>> \o SelectSeq(h, Other)))

\* deleteFromHistory(id): getHistory().filter(h => h.id !== id)
deleteFromHistory(slot, id) ==
    LET Keep(e) == Get(e, "id") # id
    IN  JArr(SelectSeq(getHistory(slot), Keep))

\* clearHistory(): removeItem unless the confirm dialog is declined
clearHistory(slot, confirmed) == IF confirmed THEN JNull ELSE slot

-----------------------------------------------------------------------------
(* JSON texts *)

\* what JSON.stringify keeps of a value: a property holding undefined is
\* dropped, undefined in an array and NaN become null
RECURSIVE ToJson(_)
ToJson(v) ==
    CASE v.t = "object" ->
            JObj([k \in {j \in OwnKeys(v) : v.f[j].t # "undefined"} |-> ToJson(v.f[k])])
      [] v.t = "array" ->
            JArr([i \in DOMAIN v.e |->
                     IF v.e[i].t = "undefined" THEN JNull ELSE ToJson(v.e[i])])
      [] v.t = "nan" -> JNull
      [] OTHER -> v

\* JSON.stringify(v): a text, which carries the value it denotes
JSONstringify(v) == [t |-> "string", s |-> "json", v |-> ToJson(v)]

\* JSON.parse(raw) does not throw
IsJsonText(raw) == raw.t = "numeral" \/ (raw.t = "string" /\ "v" \in DOMAIN raw)

\* JSON.parse(raw), for a text it accepts
JSONparse(raw) == IF raw.t = "numeral" THEN JNum(raw.n) ELSE raw.v

-----------------------------------------------------------------------------
(* The program state a handler runs on, and the effects it has *)

\* the running page: DOM, localStorage, module state and the event record
Program ==
    [form |-> form, rows |-> rows, visible |-> visible, preview |-> preview,
     draft |-> draft, lastNumber |-> lastNumber, jsonData |-> jsonData,
     isApplyingData |-> isApplyingData, history |-> history,
     objectPrototype |-> objectPrototype, file |-> file, ev |-> NoEvent]

Note(st, effect) == [st EXCEPT !.ev.trace = Append(@, effect)]

\* alert(message)
alert(st) == [Note(st, "alert") EXCEPT !.ev.alerts = @ + 1]

\* isInvoiceVisible()
isInvoiceVisible(st) == st.visible

\* saveDraft(data): the write is dropped when setItem throws
saveDraft(st, data) ==
    IF storeWorks THEN [Note(st, "saveDraft") EXCEPT !.draft = JSONstringify(data)]
    ELSE Note(st, "saveDraft")

loadDraft_raw(st) == st.draft

\* loadDraft()
loadDraft(st) ==
    IF ~Truthy(st.draft) THEN JNull
    ELSE IF IsJsonText(st.draft) THEN JSONparse(st.draft) ELSE JNull

\* clearDraft()
clearDraft(st) == [Note(st, "clearDraft") EXCEPT !.draft = JNull]

\* renderInvoice(data): fills #invoice from data and shows it
renderInvoice(st, data) ==
    [Note(st, "renderInvoice") EXCEPT !.preview = data, !.visible = TRUE]

\* data.meta.showInvoice = value
SetShowInvoice(data, value) ==
    Put(data, "meta", Put(Get(data, "meta"), "showInvoice", value))

syncFromForm_renderAlways(st, options, t) ==
    Bind(getDataFromForm(st.form, st.rows, isInvoiceVisible(st), t), LAMBDA collected :
    Bind(IF Get(options, "showInvoice").t = "boolean"
         THEN SetShowInvoice(collected, Get(options, "showInvoice"))
         ELSE collected, LAMBDA data :
    Bind(saveDraft(st, data), LAMBDA s1 :
    Bind(renderInvoice(s1, data), LAMBDA s2 :
         [s2 EXCEPT !.ev.synced = TRUE, !.ev.options = options,
                    !.ev.shown = isInvoiceVisible(st),
                    !.ev.returned = data, !.ev.stored = s2.draft,
                    !.ev.syncTrace = SubSeq(s2.ev.trace, Len(st.ev.trace) + 1,
                                            Len(s2.ev.trace))]))))

\* syncFromForm(options) at clock reading t (updateFormTotalsDisplay only
\* writes the three totals labels of the form, which nothing reads back)
syncFromForm(st, options, t) ==
    Bind(getDataFromForm(st.form, st.rows, isInvoiceVisible(st), t), LAMBDA collected :
    Bind(IF Get(options, "showInvoice").t = "boolean"
         THEN SetShowInvoice(collected, Get(options, "showInvoice"))
         ELSE collected, LAMBDA data :
    Bind(saveDraft(st, data), LAMBDA s1 :
    Bind(IF Truthy(Get(options, "render")) THEN renderInvoice(s1, data) ELSE s1, LAMBDA s2 :
         [s2 EXCEPT !.ev.synced = TRUE, !.ev.options = options,
                    !.ev.shown = isInvoiceVisible(st),
                    !.ev.returned = data, !.ev.stored = s2.draft,
                    !.ev.syncTrace = SubSeq(s2.ev.trace, Len(st.ev.trace) + 1,
                                            Len(s2.ev.trace))]))))

-----------------------------------------------------------------------------
(* items.js: the item rows of the form *)

\* addItemRow(item): the row appended; quantity and unit price are number
\* inputs
addItemRow(item) ==
    [description |-> ToText(Coalesce(Get(item, "description"), JStr(""))),
     quantity |-> NumberInput(Coalesce(Get(item, "quantity"), Num(1))),
     unitPrice |-> NumberInput(Coalesce(Get(item, "unitPrice"), Num(0)))]

\* { description: '', quantity: 1, unitPrice: 0 }
DefaultItem == JObj([description |-> JStr(""), quantity |-> Num(1), unitPrice |-> Num(0)])

ensureAtLeastOneItemRow_absent(rws) == rws

\* ensureAtLeastOneItemRow(addItemRow)
ensureAtLeastOneItemRow(rws) ==
    IF Len(rws) > 0 THEN rws ELSE Append(rws, addItemRow(DefaultItem))

\* renderItemsForm(items): the rows of the emptied container afterwards
renderItemsForm(items) ==
    IF ~IsArray(items) \/ Len(items.e) = 0 THEN <<addItemRow(EmptyObject)>>
    ELSE [i \in DOMAIN items.e |-> addItemRow(items.e[i])]

-----------------------------------------------------------------------------
(* form.js, json-io.js, main.js: the handlers *)

\* `Please send payment to below bank account.\n${lines.join('\n')}`
BankText(lines) ==
    [t |-> "string", s |-> "Please send payment to below bank account.",
     lines |-> lines]

\* the instructions applyDataToForm derives, folding a legacy seller.bank
MergedInstructions(data) ==
    LET invoice == Get(data, "invoice")
        legacyBank == Get(Get(data, "seller"), "bank")
        legacyInstructions ==
            Coalesce(Coalesce(Get(invoice, "terms"), Get(invoice, "instructions")),
                     JStr(""))
        Line(label, key) ==
            IF Truthy(Get(legacyBank, key))
            THEN <<[label |-> label, value |-> Get(legacyBank, key)]>> ELSE <<>>
        lines == Line("A/c no", "accountNo") \o Line("IFSC", "ifsc") \o Line("Name", "name")
    IN  IF ~Truthy(legacyInstructions) /\ Truthy(legacyBank) /\ Len(lines) > 0
        THEN BankText(lines) ELSE legacyInstructions

\* the value applyDataToForm hands to setValue, for every field id
AppliedValues(data) ==
    LET seller == Get(data, "seller")
        billTo == Get(data, "billTo")
        invoice == Get(data, "invoice")
    IN  [sellerName |-> Coalesce(Get(seller, "name"), JStr("")),
         sellerAddress |-> Coalesce(Get(seller, "address"), JStr("")),
         sellerEmail |-> Coalesce(Get(seller, "email"), JStr("")),
         sellerPhone |-> Coalesce(Get(seller, "phone"), JStr("")),
         billToName |-> Coalesce(Get(billTo, "name"), JStr("")),
         billToAddress |-> Coalesce(Get(billTo, "address"), JStr("")),
         billToEmail |-> Coalesce(Get(billTo, "email"), JStr("")),
         billToPhone |-> Coalesce(Get(billTo, "phone"), JStr("")),
         invoiceTitle |-> Coalesce(Get(invoice, "title"), JStr("INVOICE")),
         invoiceDate |-> Coalesce(Get(invoice, "date"), JStr("")),
         invoiceDueDate |-> Coalesce(Get(invoice, "dueDate"), JStr("")),
         invoiceNumber |-> Coalesce(Get(invoice, "number"), JStr("")),
         currencyCode |-> Coalesce(Get(Get(data, "settings"), "currency"), JStr("INR")),
         taxRate |-> Coalesce(Get(Get(data, "totals"), "taxRate"), Num(0)),
         discountAmount |-> Coalesce(Get(Get(data, "totals"), "discount"), Num(0)),
         invoiceNotes |-> Coalesce(Get(invoice, "notes"), JStr("")),
         invoiceInstructions |-> MergedInstructions(data)]

\* isApplyingData = value
SetApplying(st, value) ==
    [Note(st, IF value THEN "isApplyingData = true" ELSE "isApplyingData = false")
        EXCEPT !.isApplyingData = value]

\* the syncCallback of main.js: "flagged" raises isApplyingData around
\* syncFromForm (import, history load), "plain" calls syncFromForm only
\* (init, which raises the flag itself), "none" is no callback
Callback(st, syncCallback, options, t) ==
    CASE syncCallback = "flagged" ->
            Bind(SetApplying(st, TRUE), LAMBDA s1 :
                 SetApplying(syncFromForm(s1, options, t), FALSE))
      [] syncCallback = "plain" -> syncFromForm(st, options, t)
      [] OTHER -> st

\* applyDataToForm(data, syncCallback)
applyDataToForm(st, data, syncCallback, t) ==
    Bind(AppliedValues(data), LAMBDA values :
    Bind([Note(st, "applyFields") EXCEPT
            !.form = [id \in FieldIds |-> setValue(st.form, id, values[id])[id]],
            !.rows = renderItemsForm(OrElse(Get(data, "items"), JArr(<<>>)))],
         LAMBDA s1 :
    Bind(Get(Get(data, "meta"), "showInvoice"), LAMBDA showInvoice :
         Callback(s1, syncCallback,
                  JObj([render |-> showInvoice, showInvoice |-> showInvoice]), t))))

\* importJsonData(rawJson, syncCallback)
importJsonData(st, rawJson, syncCallback, t) ==
    IF ~IsJsonText(rawJson) THEN alert(st)
    ELSE Bind(JSONparse(rawJson), LAMBDA parsed :
         Bind(getDataFromForm(st.form, st.rows, isInvoiceVisible(st), t), LAMBDA base :
         Bind(deepMerge(base, parsed, st.objectPrototype, variant = "strict"), LAMBDA m :
         Bind(OrElse(Get(m.o, "meta"), EmptyObject), LAMBDA meta :
         Bind(Put(m.o, "meta", Put(meta, "showInvoice", JBool(TRUE))), LAMBDA merged :
         Bind([st EXCEPT !.objectPrototype = m.p], LAMBDA s1 :
              applyDataToForm(s1, merged, syncCallback, t)))))))

\* the click handler of #importJsonBtn
importJsonClick(st, t) ==
    LET raw == st.jsonData
    IN  IF ~Truthy(trim(raw)) THEN alert(st)
        ELSE importJsonData(st, raw, "flagged", t)

\* exportJsonToTextarea()
exportJsonToTextarea(st, t) ==
    Bind(syncFromForm(st, JObj([render |-> JBool(FALSE)]), t), LAMBDA s1 :
         [s1 EXCEPT !.jsonData = JSONstringify(s1.ev.returned)])

\* downloadJsonFile(): the file the browser saves holds the JSON text
downloadJsonFile(st, t) ==
    Bind(syncFromForm(st, JObj([render |-> JBool(FALSE)]), t), LAMBDA s1 :
         [s1 EXCEPT !.file = JSONstringify(s1.ev.returned)])

\* handleFileImport(event, syncCallback) with the callback of main.js, up to
\* the end of reader.onload; picked is event.target.files[0]
handleFileImport(st, picked, t) ==
    IF ~Truthy(picked) THEN st
    ELSE importJsonData(st, picked, "flagged", t)

\* generateBill(); localStorage.setItem(LAST_NUMBER_KEY, ..) is not guarded,
\* so a failing store ends the handler there
generateBill(st, t) ==
    Bind(syncFromForm(st, JObj([showInvoice |-> JBool(TRUE)]), t), LAMBDA s1 :
         IF ~validateData(s1.ev.returned) THEN alert(s1)
         ELSE
    Bind(SetShowInvoice(s1.ev.returned, JBool(TRUE)), LAMBDA data :
    Bind(renderInvoice(saveDraft(s1, data), data), LAMBDA s3 :
         IF ~storeWorks THEN Note(s3, "throw")
         ELSE
    Bind([Note(s3, "setLastNumber") EXCEPT
            !.lastNumber = ToText(Get(Get(data, "invoice"), "number"))], LAMBDA s4 :
         [Note(s4, "saveToHistory") EXCEPT
            !.history = saveToHistory(s4.history, data, t)]))))

getHistoryEntry_first(st, id) ==
    Bind(getHistory(st.history), LAMBDA h :
         IF h = <<>> THEN JNull ELSE h[1])

\* getHistoryEntry(id)
getHistoryEntry(st, id) ==
    Bind(getHistory(st.history), LAMBDA h :
    Bind({i \in DOMAIN h : Get(h[i], "id") = id}, LAMBDA hits :
         IF hits = {} THEN JNull ELSE h[CHOOSE i \in hits : \A j \in hits : i <= j]))

\* loadFromHistory(id)
loadFromHistory(st, id, t) ==
    Bind(getHistoryEntry(st, id), LAMBDA entry :
         IF ~Truthy(entry) \/ ~Truthy(Get(entry, "data")) THEN st
         ELSE Bind(Get(entry, "data"), LAMBDA data :
                   applyDataToForm(st, data, "flagged", t)))

NextNumber_same(stored) == ToText(parseNumber(stored, JNum(0)))

\* String(parseNumber(lastNumber, 0) + 1)
NextNumber(stored) == ToText(Plus(parseNumber(stored, JNum(0)), Num(1)))

\* the field values resetDraft() sets
ResetValues(stored) ==
    [id \in FieldIds |->
        CASE id = "invoiceTitle" -> JStr("INVOICE")
          [] id = "currencyCode" -> JStr("INR")
          [] id \in {"taxRate", "discountAmount"} -> Numeral(0)
          [] id = "invoiceDate" -> Today
          [] id = "invoiceNumber" ->
                IF Truthy(stored) THEN NextNumber(stored) ELSE Numeral(1)
          [] OTHER -> JStr("")]

resetDraft_noClear(st, shouldReset, t) ==
    IF ~shouldReset THEN st
    ELSE
    Bind(ResetValues(st.lastNumber), LAMBDA values :
    Bind([st EXCEPT
            !.visible = FALSE,
            !.jsonData = JStr(""),
            !.form = [id \in FieldIds |-> setValue(st.form, id, values[id])[id]],
            !.rows = ensureAtLeastOneItemRow(renderItemsForm(JArr(<<>>)))],
         LAMBDA s1 :
         syncFromForm(s1, JObj([render |-> JBool(FALSE),
                                showInvoice |-> JBool(FALSE)]), t)))

\* resetDraft(); shouldReset is the answer to the confirm dialog
resetDraft(st, shouldReset, t) ==
    IF ~shouldReset THEN st
    ELSE
    Bind(ResetValues(st.lastNumber), LAMBDA values :
    Bind([clearDraft(st) EXCEPT
            !.visible = FALSE,
            !.jsonData = JStr(""),
            !.form = [id \in FieldIds |-> setValue(st.form, id, values[id])[id]],
            !.rows = ensureAtLeastOneItemRow(renderItemsForm(JArr(<<>>)))],
         LAMBDA s1 :
         syncFromForm(s1, JObj([render |-> JBool(FALSE),
                                showInvoice |-> JBool(FALSE)]), t)))

\* init(), run on DOMContentLoaded
init(st, t) ==
    Bind(IF ~Truthy(st.form.invoiceDate)
         THEN [st EXCEPT !.form = setValue(st.form, "invoiceDate", Today)]
         ELSE st, LAMBDA s0 :
    Bind(loadDraft(s0), LAMBDA storedDraft :
         IF Truthy(storedDraft) THEN
    Bind(SetApplying(s0, TRUE), LAMBDA raised :
    Bind(SetApplying(applyDataToForm(raised, storedDraft, "plain", t), FALSE),
         LAMBDA s1 :
         IF Truthy(Get(Get(storedDraft, "meta"), "showInvoice"))
         THEN renderInvoice(s1, storedDraft) ELSE s1))
         ELSE
    Bind(IF Truthy(s0.lastNumber) /\ ~Truthy(s0.form.invoiceNumber)
         THEN [s0 EXCEPT !.form = setValue(s0.form, "invoiceNumber",
                                           NextNumber(s0.lastNumber))]
         ELSE s0, LAMBDA s2 :
    Bind([s2 EXCEPT !.rows = ensureAtLeastOneItemRow(s2.rows)], LAMBDA s3 :
         syncFromForm(s3, JObj([render |-> JBool(FALSE),
                                showInvoice |-> JBool(FALSE)]), t)))))

onInput_noRender(st, t) ==
    IF st.isApplyingData THEN st
    ELSE syncFromForm(st, JObj([render |-> JBool(FALSE)]), t)

\* the 'input' listener of #billForm
onInput(st, t) ==
    IF st.isApplyingData THEN st
    ELSE syncFromForm(st, JObj([render |-> JBool(isInvoiceVisible(st))]), t)

\* the click listener of #addItemBtn
onAddItem(st, t) ==
    Bind([st EXCEPT !.rows = Append(@, addItemRow(DefaultItem))], LAMBDA s1 :
         syncFromForm(s1, JObj([render |-> JBool(isInvoiceVisible(s1))]), t))

\* the rows left when row i is taken out
RemoveRow(rws, i) == SubSeq(rws, 1, i - 1) \o SubSeq(rws, i + 1, Len(rws))

\* the click listener of #itemsContainer, for the remove button of row i
onRemoveItem(st, i, t) ==
    Bind([st EXCEPT !.rows = ensureAtLeastOneItemRow(RemoveRow(@, i))], LAMBDA s1 :
         syncFromForm(s1, JObj([render |-> JBool(isInvoiceVisible(s1))]), t))

\* the click listener of #incrementInvoice
onIncrement(st, t) ==
    Bind(parseNumber(st.form.invoiceNumber, JNum(0)), LAMBDA current :
    Bind([st EXCEPT !.form.invoiceNumber = ToText(Plus(current, Num(1)))], LAMBDA s1 :
         syncFromForm(s1, JObj([render |-> JBool(isInvoiceVisible(s1))]), t)))

\* the click listener of #decrementInvoice
onDecrement(st, t) ==
    Bind(parseNumber(st.form.invoiceNumber, JNum(0)), LAMBDA current :
         IF current.n > Num(1).n
         THEN Bind([st EXCEPT !.form.invoiceNumber = ToText(Minus(current, Num(1)))],
                   LAMBDA s1 :
                   syncFromForm(s1, JObj([render |-> JBool(isInvoiceVisible(s1))]), t))
         ELSE st)

-----------------------------------------------------------------------------
(* The history store on its own: documents saved, entries deleted *)

HistDoc(number, customer) ==
    JObj([invoice |-> JObj([number |-> number, date |-> JStr("2025-01-01")]),
          billTo |-> JObj([name |-> JStr(customer)]),
          totals |-> JObj([total |-> JNum(100)]),
          settings |-> JObj([currency |-> JStr("INR")])])

SaveWith(b, slot, data, t, shouldOverwrite) ==
    IF b = "script" THEN scriptSaveToHistory(slot, data, t, shouldOverwrite)
    ELSE saveToHistory(slot, data, t)

\* the numbers a later save may repeat: the oldest two, and no number
ResaveNumbers == {JNumeral(1), JNumeral(2), JStr("")}

\* the answers the confirm dialog of script.js can get
OverwriteAnswers == IF build = "script" THEN BOOLEAN ELSE {TRUE}

InitHistory ==
    /\ build \in {"modules", "script"}
    /\ history = JNull
    /\ now = 0
    /\ saved = [n |-> 0, pure |-> TRUE]
    /\ last = NoEvent
    /\ ops = 0
    /\ variant = "simple"
    /\ merge = NoCall
    /\ objectPrototype = EmptyObject
    /\ NoPage

\* The user first bills PrefillCount invoices with the numbers 1, 2, ...,
\* more than a millisecond apart; while that goes on nothing else happens
\* to the history, except right at the start.
Filling == ops = 0 /\ saved.pure /\ saved.n < PrefillCount

Settled == saved.n <= 1 \/ saved.n >= PrefillCount

\* generateBill saves a document whose number was not saved before
SaveFresh ==
    /\ Filling \/ ops < MaxHistoryOps
    /\ \E shouldOverwrite \in OverwriteAnswers :
          LET number == JNumeral(saved.n + 1)
          IN  /\ history' = SaveWith(build, history, HistDoc(number, "A"), now,
                                     shouldOverwrite)
              /\ last' = Event("saveToHistory", number)
    /\ saved' = [saved EXCEPT !.n = saved.n + 1]
    /\ now' = IF Filling THEN now + 1 ELSE now
    /\ ops' = IF Filling THEN ops ELSE ops + 1
    /\ UNCHANGED <<build, mergeVars, appVars>>

\* generateBill saves a document with one of the oldest numbers or with an
\* empty number
SaveAgain ==
    /\ Settled /\ ops < MaxHistoryOps
    /\ \E number \in ResaveNumbers, shouldOverwrite \in OverwriteAnswers :
          /\ history' = SaveWith(build, history, HistDoc(number, "B"), now,
                                 shouldOverwrite)
          /\ last' = [Event("saveToHistory", number) EXCEPT
                         !.options = JBool(shouldOverwrite)]
    /\ saved' = [saved EXCEPT !.pure = FALSE]
    /\ ops' = ops + 1
    /\ UNCHANGED <<build, now, mergeVars, appVars>>

\* click on the delete button of a listed entry (the list may be stale)
DeleteEntry ==
    /\ Settled /\ ops < MaxHistoryOps
    /\ \E id \in {JNum(0), JNum(1), JNum(now)} :
          /\ history' = deleteFromHistory(history, id)
          /\ last' = Event("deleteFromHistory", id)
    /\ saved' = [saved EXCEPT !.pure = FALSE]
    /\ ops' = ops + 1
    /\ UNCHANGED <<build, now, mergeVars, appVars>>

ClearAll ==
    /\ Settled /\ ops < MaxHistoryOps
    /\ \E confirmed \in BOOLEAN :
          /\ history' = clearHistory(history, confirmed)
          /\ last' = Event("clearHistory", JBool(confirmed))
    /\ saved' = [saved EXCEPT !.pure = FALSE]
    /\ ops' = ops + 1
    /\ UNCHANGED <<build, now, mergeVars, appVars>>

\* a millisecond passes
Tick ==
    /\ Settled /\ ops < MaxHistoryOps
    /\ now' = now + 1
    /\ ops' = ops + 1
    /\ UNCHANGED <<build, history, saved, last, mergeVars, appVars>>

NextHistory == SaveFresh \/ SaveAgain \/ DeleteEntry \/ ClearAll \/ Tick

SpecHistory == InitHistory /\ [][NextHistory]_vars

-----------------------------------------------------------------------------
(* The page: what the store holds at load, what the user types *)

\* a form filled in completely
SampleForm ==
    [id \in FieldIds |->
        CASE id = "sellerName" -> JStr("Acme")
          [] id = "sellerAddress" -> JStr("1 Main St")
          [] id = "billToName" -> JStr("Bob")
          [] id = "billToAddress" -> JStr("2 Side St")
          [] id = "invoiceTitle" -> JStr("INVOICE")
          [] id = "invoiceDate" -> JStr("2025-01-01")
          [] id = "invoiceNumber" -> Numeral(7)
          [] id = "currencyCode" -> JStr("INR")
          [] id = "taxRate" -> Numeral(10)
          [] id = "discountAmount" -> Numeral(100)
          [] OTHER -> JStr("")]

SampleRows ==
    <<[description |-> JStr("Work"), quantity |-> Numeral(2), unitPrice |-> Numeral(1000)],
      [description |-> JStr("Parts"), quantity |-> Numeral(1), unitPrice |-> Numeral(50)]>>

\* the document an earlier session left of SampleForm with n rows
SampleDoc(n, shown) ==
    SetShowInvoice(getDataFromForm(SampleForm, SubSeq(SampleRows, 1, n), shown, 0),
                   JBool(shown))

\* localStorage at page load: empty; a draft typed but never billed; the
\* draft, last number and history entry of an invoice billed earlier
StoredStates ==
    {[draft |-> JNull, lastNumber |-> JNull, history |-> JNull],
     [draft |-> JSONstringify(SampleDoc(1, FALSE)), lastNumber |-> JNull,
      history |-> JNull],
     [draft |-> JSONstringify(SampleDoc(2, TRUE)), lastNumber |-> Numeral(7),
      history |-> JArr(<<ToJson(HistoryEntry(SampleDoc(2, TRUE), 0))>>)]}

\* the page as served, over a store
PageLoad(stored) ==
    [form |-> BlankForm, rows |-> <<>>, visible |-> FALSE, preview |-> Undefined,
     draft |-> stored.draft, lastNumber |-> stored.lastNumber,
     jsonData |-> JStr(""), isApplyingData |-> FALSE, history |-> stored.history,
     objectPrototype |-> EmptyObject, file |-> JNull, ev |-> Event("init", Undefined)]

\* what the user types into a form field
TypedFields ==
    {<<"sellerName", JStr("Zed Ltd")>>, <<"billToAddress", JStr("")>>,
     <<"taxRate", Numeral(18)>>, <<"taxRate", JStr("")>>,
     <<"invoiceNumber", JStr("INV-A")>>, <<"currencyCode", JStr(" ")>>}

\* what the user types into a cell of an item row
TypedCells ==
    {<<"description", JStr("")>>, <<"description", JStr("Widget")>>,
     <<"quantity", Numeral(0)>>, <<"unitPrice", JStr("")>>}

\* the document of the import test
ImportedDoc ==
    JObj([schemaVersion |-> Num(1),
          settings |-> JObj([currency |-> JStr("USD"), locale |-> JStr("en-US")]),
          seller |-> JObj([name |-> JStr("Imported Seller"),
                           address |-> JStr("Import Address"),
                           email |-> JStr(""), phone |-> JStr("")]),
          billTo |-> JObj([name |-> JStr("Imported Customer"),
                           address |-> JStr("Customer Address"),
                           email |-> JStr(""), phone |-> JStr("")]),
          invoice |-> JObj([title |-> JStr("INVOICE"), number |-> JStr("IMP-123"),
                            date |-> JStr("2025-01-01"), dueDate |-> JStr(""),
                            notes |-> JStr(""), instructions |-> JStr("")]),
          items |-> JArr(<<JObj([description |-> JStr("Imported Item"),
                                 quantity |-> Num(5), unitPrice |-> Num(100)])>>),
          totals |-> JObj([taxRate |-> Num(0), discount |-> Num(0)]),
          meta |-> JObj([showInvoice |-> JBool(FALSE)])])

\* a part of it: seller.name, invoice.number and the items
PartialDoc ==
    JObj([seller |-> JObj([name |-> JStr("Imported Seller")]),
          invoice |-> JObj([number |-> JStr("IMP-123")]),
          items |-> Get(ImportedDoc, "items")])

\* what the user pastes into the JSON textarea
ImportTexts ==
    {JStr("{oops"), JSONstringify(ImportedDoc), JSONstringify(PartialDoc),
     JSONstringify(JObj([items |-> JArr(<<>>)]))}

-----------------------------------------------------------------------------
(* The page: one action per event *)

\* the event handled on the running page
Begin(op, arg) == [Program EXCEPT !.ev = Event(op, arg)]

\* the page after the handler has returned
Deliver(st) ==
    \E s \in {st} :
        /\ form' = s.form
        /\ rows' = s.rows
        /\ visible' = s.visible
        /\ preview' = s.preview
        /\ draft' = s.draft
        /\ lastNumber' = s.lastNumber
        /\ jsonData' = s.jsonData
        /\ isApplyingData' = s.isApplyingData
        /\ history' = s.history
        /\ objectPrototype' = s.objectPrototype
        /\ file' = s.file
        /\ last' = [s.ev EXCEPT !.before = Append(last.before, Earlier(last))]
        /\ now' = now + 1
        /\ ops' = ops + 1
        /\ UNCHANGED <<variant, merge, build, saved, storeWorks, pdf>>

\* the page has loaded: init() has run over what the store held
Loaded(st) ==
    \E s \in {st} :
        /\ form = s.form
        /\ rows = s.rows
        /\ visible = s.visible
        /\ preview = s.preview
        /\ draft = s.draft
        /\ lastNumber = s.lastNumber
        /\ jsonData = s.jsonData
        /\ isApplyingData = s.isApplyingData
        /\ history = s.history
        /\ objectPrototype = s.objectPrototype
        /\ file = s.file
        /\ pdf = NoPdf
        /\ last = s.ev

Init ==
    /\ variant \in {"simple", "strict"}
    /\ storeWorks \in BOOLEAN
    /\ build = "modules"
    /\ merge = NoCall
    /\ saved = [n |-> 0, pure |-> TRUE]
    /\ ops = 0
    /\ now = 2
    /\ \E stored \in StoredStates : Loaded(init(PageLoad(stored), 1))

\* the user types into a form field
InputField ==
    /\ ops < MaxOps
    /\ \E e \in TypedFields :
          Deliver(onInput([Begin("input", JStr(e[1])) EXCEPT !.form[e[1]] = e[2]], now))

\* the user types into a cell of item row i
InputCell ==
    /\ ops < MaxOps
    /\ \E i \in DOMAIN rows, e \in TypedCells :
          Deliver(onInput([Begin("input", JStr(e[1])) EXCEPT !.rows[i][e[1]] = e[2]], now))

AddItem ==
    /\ ops < MaxOps
    /\ Len(rows) < MaxRows
    /\ Deliver(onAddItem(Begin("addItem", Undefined), now))

RemoveItem ==
    /\ ops < MaxOps
    /\ \E i \in DOMAIN rows :
          Deliver(onRemoveItem(Begin("removeItem", JNum(i)), i, now))

GenerateBill ==
    /\ ops < MaxOps
    /\ Deliver(generateBill(Begin("generateBill", Undefined), now))

\* the user replaces the text of the JSON textarea
PasteJson ==
    /\ ops < MaxOps
    /\ \E raw \in ImportTexts :
          Deliver([Begin("paste", raw) EXCEPT !.jsonData = raw])

ImportJson ==
    /\ ops < MaxOps
    /\ Deliver(importJsonClick(Begin("importJson", jsonData), now))

ExportJson ==
    /\ ops < MaxOps
    /\ Deliver(exportJsonToTextarea(Begin("exportJson", Undefined), now))

ResetDraft ==
    /\ ops < MaxOps
    /\ \E shouldReset \in BOOLEAN :
          Deliver(resetDraft(Begin("resetDraft", JBool(shouldReset)), shouldReset, now))

\* the user clicks an entry of the history list
LoadFromHistory ==
    /\ ops < MaxOps
    /\ \E i \in DOMAIN getHistory(history) :
          LET id == Get(getHistory(history)[i], "id")
          IN  Deliver(loadFromHistory(Begin("loadFromHistory", id), id, now))

\* the click reaches loadFromHistory with the id of an entry that is gone
\* (deleted or evicted in another tab since the list was drawn)
LoadStale ==
    /\ ops < MaxOps
    /\ Deliver(loadFromHistory(Begin("loadFromHistory", JNum(now)), JNum(now), now))

Increment ==
    /\ ops < MaxOps
    /\ Deliver(onIncrement(Begin("increment", Undefined), now))

Decrement ==
    /\ ops < MaxOps
    /\ Deliver(onDecrement(Begin("decrement", Undefined), now))

\* click on #downloadJsonBtn
DownloadJson ==
    /\ ops < MaxOps
    /\ Deliver(downloadJsonFile(Begin("downloadJson", Undefined), now))

\* the user picks the downloaded file in #importFile, or cancels the dialog
ImportFile ==
    /\ ops < MaxOps
    /\ \E picked \in {file, Undefined} :
          Deliver(handleFileImport(Begin("importFile", picked), picked, now))

Next ==
    \/ InputField \/ InputCell \/ AddItem \/ RemoveItem \/ GenerateBill
    \/ PasteJson \/ ImportJson \/ ExportJson \/ ResetDraft \/ LoadFromHistory
    \/ Increment \/ Decrement

Spec == Init /\ [][Next]_vars

-----------------------------------------------------------------------------
(* The form on its own: documents collected, validated and billed *)

\* the fields validateData asks for
RequiredIds ==
    {"sellerName", "sellerAddress", "billToName", "billToAddress",
     "invoiceDate", "invoiceNumber"}

\* a complete form with up to MaxRows rows of numbers, tax and discount
NumberCases ==
    {[form |-> [SampleForm EXCEPT !.taxRate = tax, !.discountAmount = discount],
      rows |-> rws] :
        tax \in {JStr(""), Numeral(0), Numeral(10)},
        discount \in {JStr(""), Numeral(100), Numeral(5000)},
        rws \in UNION {[1..n -> [description : {JStr("Work")},
                                 quantity : {JStr(""), Numeral(1), Numeral(2)},
                                 unitPrice : {JStr(""), Numeral(0), Numeral(1000)}]] :
                          n \in 1..MaxRows}}

\* a form with some required fields left blank, and one row
BlankCases ==
    {[form |-> [id \in FieldIds |-> IF id \in blanks THEN JStr("") ELSE SampleForm[id]],
      rows |-> <<row>>] :
        blanks \in SUBSET RequiredIds,
        row \in [description : {JStr(""), JStr("Work")},
                 quantity : {JStr(""), Numeral(0), Numeral(2)},
                 unitPrice : {JStr(""), Numeral(0), Numeral(1000)}]}

\* the page after the user has typed the form c, the last key included
Typed(c) ==
    [form |-> c.form, rows |-> c.rows, visible |-> FALSE, preview |-> Undefined,
     draft |-> JNull, lastNumber |-> JNull, jsonData |-> JStr(""),
     isApplyingData |-> FALSE, history |-> JNull, objectPrototype |-> EmptyObject,
     file |-> JNull, ev |-> Event("input", Undefined)]

InitForm ==
    /\ variant = "simple"
    /\ storeWorks = TRUE
    /\ build = "modules"
    /\ merge = NoCall
    /\ saved = [n |-> 0, pure |-> TRUE]
    /\ ops = MaxOps - 1
    /\ now = 2
    /\ \E c \in NumberCases \cup BlankCases : Loaded(onInput(Typed(c), 1))

\* getDataFromForm() is called
GetData ==
    /\ ops < MaxOps
    /\ last' = [Event("getDataFromForm", Undefined) EXCEPT
                  !.returned = getDataFromForm(form, rows, visible, now)]
    /\ now' = now + 1
    /\ ops' = ops + 1
    /\ UNCHANGED <<variant, mergeVars, build, history, saved, appVars>>

\* what validateData may be handed as the items of a document
ProbeItems(data) == {Get(data, "items"), JArr(<<>>), Undefined, JStr("none")}

\* validateData(data) is called on the form's document, or on it with other items
Validate ==
    /\ ops < MaxOps
    /\ \E data \in {getDataFromForm(form, rows, visible, now)} :
       \E items \in ProbeItems(data) :
       \E probe \in {Put(data, "items", items)} :
          last' = [Event("validateData", probe) EXCEPT
                     !.returned = JBool(validateData(probe))]
    /\ now' = now + 1
    /\ ops' = ops + 1
    /\ UNCHANGED <<variant, mergeVars, build, history, saved, appVars>>

NextForm == GetData \/ Validate \/ GenerateBill

SpecForm == InitForm /\ [][NextForm]_vars

-----------------------------------------------------------------------------
(* A session on a typed form: bill, download, reset, import, load again *)

\* a form typed with blanks, outer white space and a number that is no numeral
OddForm ==
    [SampleForm EXCEPT !.invoiceTitle = JStr(""), !.invoiceNumber = JStr("INV-A"),
                       !.currencyCode = JStr(" "), !.taxRate = JStr(""),
                       !.discountAmount = JStr(""), !.invoiceNotes = JStr("Thanks")]

OddRows ==
    <<[description |-> JStr("Work"), quantity |-> Numeral(2), unitPrice |-> Numeral(1000)],
      [description |-> JStr(" "), quantity |-> JStr(""), unitPrice |-> JStr("")]>>

\* the forms of a session, with the preview hidden or shown
TripCases ==
    {[form |-> c.form, rows |-> c.rows, shown |-> shown] :
        c \in {[form |-> SampleForm, rows |-> SubSeq(SampleRows, 1, 1)],
               [form |-> OddForm, rows |-> OddRows],
               [form |-> [BlankForm EXCEPT !.invoiceDate = Today],
                rows |-> <<addItemRow(DefaultItem)>>]},
        shown \in BOOLEAN}

\* the session has TripOps events to go, on the page as the user typed it
InitTrip ==
    /\ variant \in {"simple", "strict"}
    /\ storeWorks \in BOOLEAN
    /\ build = "modules"
    /\ merge = NoCall
    /\ saved = [n |-> 0, pure |-> TRUE]
    /\ ops = MaxOps - TripOps
    /\ now = 2
    /\ \E c \in TripCases :
          Loaded(onInput([Typed(c) EXCEPT !.visible = c.shown], 1))

NextTrip ==
    \/ GenerateBill \/ DownloadJson \/ ResetDraft \/ ImportFile
    \/ LoadFromHistory \/ LoadStale \/ Increment

SpecTrip == InitTrip /\ [][NextTrip]_vars

-----------------------------------------------------------------------------
(* syncFromForm called directly, as its callers in form.js and main.js do *)

\* the options objects: render and showInvoice absent, false or true
SyncOptions ==
    {JObj(f) : f \in UNION {[ks -> {JBool(FALSE), JBool(TRUE)}] :
                                ks \in SUBSET {"render", "showInvoice"}}}

\* syncFromForm(options)
SyncCall ==
    /\ ops < MaxOps
    /\ \E options \in SyncOptions :
          Deliver(syncFromForm(Begin("syncFromForm", options), options, now))

NextSync == SyncCall \/ Increment

SpecSync == Init /\ [][NextSync]_vars

-----------------------------------------------------------------------------
(* The page loading over a draft an older version of the program left *)

\* what a stored draft may hold under a key: nothing, "" or a text
Texts(text) == {Undefined, JStr(""), JStr(text)}

\* the seller.bank of an older draft: absent, or an object whose accountNo,
\* ifsc and name are each empty or filled
LegacyBanks ==
    {Undefined}
    \cup {JObj([accountNo |-> a, ifsc |-> i, name |-> n]) :
              a \in {JStr(""), JStr("123")}, i \in {JStr(""), JStr("HDFC0001")},
              n \in {JStr(""), JStr("Acme")}}

\* drafts with every combination of invoice.instructions, invoice.terms and
\* seller.bank
LegacyDrafts ==
    {Put(Put(SampleDoc(1, FALSE),
             "invoice", Put(Put(Get(SampleDoc(1, FALSE), "invoice"),
                                "instructions", instructions), "terms", terms)),
         "seller", Put(Get(SampleDoc(1, FALSE), "seller"), "bank", bank)) :
        instructions \in Texts("Pay in 7 days"), terms \in Texts("Net 30"),
        bank \in LegacyBanks}

\* the page as served, init() not yet run, over a store with such a draft
InitLegacy ==
    /\ variant \in {"simple", "strict"}
    /\ storeWorks = TRUE
    /\ build = "modules"
    /\ merge = NoCall
    /\ saved = [n |-> 0, pure |-> TRUE]
    /\ ops = MaxOps - 1
    /\ now = 1
    /\ \E d \in LegacyDrafts :
          Loaded([PageLoad([draft |-> JSONstringify(d), lastNumber |-> JNull,
                            history |-> JNull]) EXCEPT !.ev = NoEvent])

\* DOMContentLoaded: init() runs
PageInit ==
    /\ ops < MaxOps
    /\ last.op = "none"
    /\ Deliver(init(Begin("init", draft), now))

NextLegacy == PageInit

SpecLegacy == InitLegacy /\ [][NextLegacy]_vars

-----------------------------------------------------------------------------
(* pdf.js: downloadPDF and shareInvoice, in the three versions of the module *)

PdfModules == {"pdfmake", "templates", "jspdf"}

\* how a call can end.  downloadPDF: the file is saved, or rendering throws;
\* with jsPDF the library may also be missing (window.jspdf undefined).
\* shareInvoice: navigator.share resolves, the fallback download runs,
\* something throws, or the user dismisses the share sheet (AbortError)
DownloadOutcomes(module) ==
    IF module = "jspdf" THEN {"success", "failure", "unavailable"}
    ELSE {"success", "failure"}

ShareOutcomes == {"shared", "downloaded", "failure", "abort"}

\* downloadPDF() up to its first await.  The pdfmake versions have none:
\* try, catch and finally run within the click.  The jsPDF version reads
\* window.jspdf first, then marks the button and awaits the canvas.
\* The result is [pdf, done, alerts].
clickDownload(p, outcome) ==
    IF p.module = "jspdf" THEN
        IF outcome = "unavailable" THEN [pdf |-> p, done |-> TRUE, alerts |-> 0]
        ELSE [pdf |-> [p EXCEPT !.originalBtnText = p.downloadBtn.textContent,
                                !.downloadBtn = [textContent |-> "Generating...",
                                                 disabled |-> TRUE],
                                !.pending = @ \cup {"download"}],
              done |-> FALSE, alerts |-> 0]
    ELSE
        Bind([p EXCEPT !.originalBtnText = p.downloadBtn.textContent,
                       !.downloadBtn = [textContent |-> "Generating...",
                                        disabled |-> TRUE]], LAMBDA p1 :
             [pdf |-> [p1 EXCEPT !.downloadBtn = [textContent |-> p1.originalBtnText,
                                                  disabled |-> FALSE]],
              done |-> TRUE,
              alerts |-> IF outcome = "failure" THEN 1 ELSE 0])

\* the jsPDF downloadPDF() from its await to the end of finally
settleDownload(p, outcome) ==
    [pdf |-> [p EXCEPT !.downloadBtn = [textContent |-> p.originalBtnText,
                                        disabled |-> FALSE],
                       !.pending = @ \ {"download"}],
     done |-> TRUE,
     alerts |-> IF outcome = "failure" THEN 1 ELSE 0]

\* shareInvoice() up to its first await
clickShare(p) ==
    [p EXCEPT !.shareBtn = [textContent |-> "Preparing...", disabled |-> TRUE],
              !.pending = @ \cup {"share"}]

\* shareInvoice() from there to the end of finally: the alert unless
\* error.name is 'AbortError', then the label each version writes back.
\* The version with the template registry writes the label as the bytes
\* of the emoji read as Windows-1252
settleShare(p, outcome) ==
    [pdf |-> [p EXCEPT !.shareBtn =
                          [textContent |-> IF p.module = "templates"
                                           THEN "U+00F0 U+0178 U+201C U+00A4 Share"
                                           ELSE "U+1F4E4 Share",
                           disabled |-> FALSE],
                       !.pending = @ \ {"share"}],
     done |-> TRUE,
     alerts |-> IF outcome = "failure" THEN 1 ELSE 0]

InitPdf ==
    /\ variant = "simple"
    /\ merge = NoCall
    /\ objectPrototype = EmptyObject
    /\ build = "modules"
    /\ history = JNull
    /\ now = 0
    /\ saved = [n |-> 0, pure |-> TRUE]
    /\ ops = 0
    /\ last = NoEvent
    /\ form = SampleForm
    /\ rows = SampleRows
    /\ visible = TRUE
    /\ preview = SampleDoc(2, TRUE)
    /\ draft = JSONstringify(SampleDoc(2, TRUE))
    /\ lastNumber = JNull
    /\ jsonData = JStr("")
    /\ isApplyingData = FALSE
    /\ storeWorks = TRUE
    /\ file = JNull
    /\ \E module \in PdfModules : pdf = [NoPdf EXCEPT !.module = module]

\* the page after a step of a pdf.js call
PdfStep(op, outcome, r) ==
    /\ pdf' = r.pdf
    /\ last' = [Event(op, JStr(IF r.done THEN outcome ELSE "pending")) EXCEPT
                   !.alerts = r.alerts,
                   !.before = Append(last.before, Earlier(last))]
    /\ ops' = ops + 1
    /\ UNCHANGED <<variant, merge, objectPrototype, build, history, now, saved,
                   form, rows, visible, preview, draft, lastNumber, jsonData,
                   isApplyingData, storeWorks, file>>

\* click on #downloadBtn; a disabled button takes no click
DownloadPdf ==
    /\ ops < MaxPdfOps
    /\ ~pdf.downloadBtn.disabled
    /\ \E outcome \in DownloadOutcomes(pdf.module) :
          PdfStep("downloadPDF", outcome, clickDownload(pdf, outcome))

\* the awaited canvas of the jsPDF downloadPDF() arrives, or fails
DownloadSettle ==
    /\ ops < MaxPdfOps
    /\ "download" \in pdf.pending
    /\ \E outcome \in {"success", "failure"} :
          PdfStep("downloadPDF", outcome, settleDownload(pdf, outcome))

\* click on #shareBtn
ShareClick ==
    /\ ops < MaxPdfOps
    /\ ~pdf.shareBtn.disabled
    /\ PdfStep("shareInvoice", "pending",
               [pdf |-> clickShare(pdf), done |-> FALSE, alerts |-> 0])

\* the awaited blob and share sheet of shareInvoice() settle
ShareSettle ==
    /\ ops < MaxPdfOps
    /\ "share" \in pdf.pending
    /\ \E outcome \in ShareOutcomes :
          PdfStep("shareInvoice", outcome, settleShare(pdf, outcome))

NextPdf == DownloadPdf \/ DownloadSettle \/ ShareClick \/ ShareSettle

SpecPdf == InitPdf /\ [][NextPdf]_vars

-----------------------------------------------------------------------------
(* pdf.js with the template registry: which template lays out the PDF *)

\* getTemplate(id): templates.find(t => t.id === id) || templates[0]
getTemplate(id) ==
    IF id = JStr("minimal") THEN "MinimalTemplate" ELSE "DefaultTemplate"

\* generateDocumentDefinition(data): the template that lays the document out
generateDocumentDefinition(data) ==
    getTemplate(OrElse(Get(Get(data, "settings"), "templateId"), JStr("default")))

\* downloadPDF(), as far as the document goes: it is collected from the
\* form and handed to the template
downloadPDF(st, t) ==
    Bind(getDataFromForm(st.form, st.rows, isInvoiceVisible(st), t), LAMBDA data :
         [Note(st, "createPdf") EXCEPT
            !.ev.returned = data,
            !.ev.template = generateDocumentDefinition(data)])

\* the values of settings.templateId a document comes with: the two
\* registered ids, an unknown one, none
TemplateIds == {JStr("minimal"), JStr("default"), JStr("fancy"), Undefined}

\* the document with settings.templateId = id
WithTemplate(doc, id) ==
    IF id = Undefined THEN doc
    ELSE Put(doc, "settings", Put(Get(doc, "settings"), "templateId", id))

\* the JSON texts the user has pasted: a whole document, or its settings
\* alone
TemplateTexts ==
    {JSONstringify(WithTemplate(SampleDoc(1, TRUE), id)) : id \in TemplateIds}
    \cup {JSONstringify(WithTemplate(JObj([settings |-> EmptyObject]), id)) :
             id \in TemplateIds}

\* The page is loaded over a history that holds one bill, whose document
\* names a template, and the user has pasted a JSON text.
InitTemplate ==
    /\ variant \in {"simple", "strict"}
    /\ storeWorks = TRUE
    /\ build = "modules"
    /\ merge = NoCall
    /\ saved = [n |-> 0, pure |-> TRUE]
    /\ ops = MaxOps - TemplateOps
    /\ now = 2
    /\ \E id \in TemplateIds, raw \in TemplateTexts :
          Loaded([init(PageLoad(
                     [draft |-> JNull, lastNumber |-> JNull,
                      history |-> JArr(<<ToJson(HistoryEntry(
                                     WithTemplate(SampleDoc(2, TRUE), id), 0))>>)]), 1)
                    EXCEPT !.jsonData = raw])

\* click on Download PDF
PdfExport ==
    /\ ops < MaxOps
    /\ Deliver(downloadPDF(Begin("downloadPDF", Undefined), now))

NextTemplate == ImportJson \/ LoadFromHistory \/ PdfExport \/ Increment

SpecTemplate == InitTemplate /\ [][NextTemplate]_vars

-----------------------------------------------------------------------------
(* The page loaded over stored data that is not JSON *)

\* what the draft key can hold at load: a text cut off in the middle,
\* nothing, the empty text
DraftTexts == {JStr("{\"seller\":"), JNull, JStr("")}

\* what the history key can hold at load: a text cut off, nothing
HistoryTexts == {JStr("[{\"id\":"), JNull}

\* what the last-number key can hold at load
LastNumbers == {JNull, Numeral(7), JStr("INV-A")}

\* the form fields as the browser hands them to init: empty, or restored
\* from before the reload, with or without the invoice number
RestoredForms ==
    {BlankForm, SampleForm, [SampleForm EXCEPT !.invoiceNumber = JStr("")]}

InitMalformed ==
    /\ variant \in {"simple", "strict"}
    /\ storeWorks = TRUE
    /\ build = "modules"
    /\ merge = NoCall
    /\ saved = [n |-> 0, pure |-> TRUE]
    /\ ops = MaxOps - MalformedOps
    /\ now = 1
    /\ \E d \in DraftTexts, h \in HistoryTexts, n \in LastNumbers,
          f \in RestoredForms :
          Loaded([PageLoad([draft |-> d, lastNumber |-> n, history |-> h])
                    EXCEPT !.form = f, !.ev = NoEvent])

\* the handlers are attached: init has run
Ready == last.op # "none"

NextMalformed ==
    \/ PageInit
    \/ (Ready /\ InputCell)
    \/ (Ready /\ GenerateBill)

SpecMalformed == InitMalformed /\ [][NextMalformed]_vars

-----------------------------------------------------------------------------
(* C1 *)

UnsafeNames == {"__proto__", "constructor", "prototype"}

\* an unsafe name is a key somewhere in v, looking through plain objects
\* and through the elements of arrays
RECURSIVE UnsafeKeyAnywhere(_)
UnsafeKeyAnywhere(v) ==
    \/ IsPlainObject(v) /\ \/ OwnKeys(v) \cap UnsafeNames # {}
                           \/ \E k \in OwnKeys(v) : UnsafeKeyAnywhere(v.f[k])
    \/ IsArray(v) /\ \E i \in DOMAIN v.e : UnsafeKeyAnywhere(v.e[i])

\* an unsafe name is a key of v or of a plain object nested in v through
\* plain objects only (array values are not looked into)
RECURSIVE UnsafeKeyInObjects(_)
UnsafeKeyInObjects(v) ==
    IsPlainObject(v) /\ \/ OwnKeys(v) \cap UnsafeNames # {}
                        \/ \E k \in OwnKeys(v) : UnsafeKeyInObjects(v.f[k])

\* C1 as stated: after deepMerge no unsafe key of the source is in the
\* target at any depth, inside nested objects and inside array elements,
\* and the shared prototype is unchanged.
C1_Original ==
    merge.done => /\ ~UnsafeKeyAnywhere(merge.result)
                  /\ objectPrototype = EmptyObject

\* C1 (amended): after deepMerge no unsafe name is a key of the target or of
\* any plain object nested in it through plain objects, and the shared
\* object prototype is unchanged; array-valued fields are copied whole, so
\* an object that is an element of a copied array keeps its keys.
C1_NoUnsafeKeyMerged ==
    merge.done => /\ ~UnsafeKeyInObjects(merge.result)
                  /\ objectPrototype = EmptyObject

\* a finished merge of a source that has an unsafe key two objects deep,
\* which copied a safe key
C1_Witness ==
    /\ merge.done
    /\ IsPlainObject(merge.source)
    /\ \E k \in OwnKeys(merge.source) :
          /\ IsPlainObject(merge.source.f[k])
          /\ OwnKeys(merge.source.f[k]) \cap UnsafeNames # {}
          /\ k \in OwnKeys(merge.result)
          /\ IsPlainObject(merge.result.f[k])
    /\ merge.result # merge.target

-----------------------------------------------------------------------------
(* C4, C5, C6: the history store *)

\* the invoice number a stored entry is filed under
EntryNumber(e) ==
    IF build = "script" THEN Get(e, "invoiceNumber") ELSE Get(e, "number")

StoredEntries == getHistory(history)

\* C4: starting from an empty history, after any sequence of saves, deletes
\* and clears the persisted history has at most one entry for each
\* non-empty invoice number.
C4_OneEntryPerNumber ==
    \A i, j \in DOMAIN StoredEntries :
        (i # j /\ EntryNumber(StoredEntries[i]) = EntryNumber(StoredEntries[j]))
            => EntryNumber(StoredEntries[i]) = JStr("")

\* a number saved for the second time, with new contents, next to another entry
C4_Witness ==
    /\ last.op = "saveToHistory"
    /\ last.arg = JNumeral(1)
    /\ ~saved.pure
    /\ Len(StoredEntries) >= 2
    /\ \E i \in DOMAIN StoredEntries :
          /\ EntryNumber(StoredEntries[i]) = JNumeral(1)
          /\ Get(StoredEntries[i], "customerName") = JStr("B")

\* C5: the persisted history never holds more than 50 entries, and 51 saves
\* of pairwise distinct numbers into an empty history leave exactly 50
\* entries, the first document saved being the one that is missing.
C5_HistoryCap ==
    /\ Len(StoredEntries) <= 50
    /\ (saved.pure /\ saved.n = 51) =>
          /\ Len(StoredEntries) = 50
          /\ {EntryNumber(StoredEntries[i]) : i \in DOMAIN StoredEntries}
                = {JNumeral(n) : n \in 2..51}

\* 51 distinct numbers were saved into the empty history and nothing else
C5_Witness == saved.pure /\ saved.n = 51 /\ Len(StoredEntries) = 50

\* C6: saving a document whose non-empty number is already in the history
\* leaves the length of the history unchanged and leaves every entry with
\* another number unchanged.
C6_DedupFrame ==
    [][LET h == getHistory(history)
           h2 == getHistory(history')
           Other(e) == EntryNumber(e) # last'.arg
       IN  (/\ last'.op = "saveToHistory"
            /\ Truthy(last'.arg)
            /\ \E i \in DOMAIN h : EntryNumber(h[i]) = last'.arg)
           => /\ Len(h2) = Len(h)
              /\ SelectSeq(h2, Other) = SelectSeq(h, Other)]_vars

\* the second oldest number was saved again and its entry now holds the
\* new contents, among at least three entries
C6_Witness ==
    /\ last.op = "saveToHistory"
    /\ last.arg = JNumeral(2)
    /\ Len(StoredEntries) >= 3
    /\ \E i \in DOMAIN StoredEntries :
          /\ EntryNumber(StoredEntries[i]) = JNumeral(2)
          /\ Get(StoredEntries[i], "customerName") = JStr("B")

-----------------------------------------------------------------------------
(* The synchronisation contract *)

\* C2: after a syncFromForm(options) call on a working store the draft slot
\* holds exactly the document the call returned; the document's
\* meta.showInvoice is options.showInvoice when that is a boolean and the
\* visibility of the preview at collection otherwise; the preview is
\* rendered by the call if and only if options.render is truthy, and then
\* after the draft was written.
C2_SyncContract ==
    (last.synced /\ storeWorks) =>
        LET showInvoice == Get(last.options, "showInvoice")
            render == Truthy(Get(last.options, "render"))
        IN  /\ last.stored = JSONstringify(last.returned)
            /\ JSONparse(last.stored) = last.returned
            /\ Get(Get(last.returned, "meta"), "showInvoice")
                 = IF showInvoice.t = "boolean" THEN showInvoice ELSE JBool(last.shown)
            /\ render <=> (\E i \in DOMAIN last.syncTrace :
                              last.syncTrace[i] = "renderInvoice")
            /\ last.syncTrace = IF render THEN <<"saveDraft", "renderInvoice">>
                                ELSE <<"saveDraft">>

\* the user typed into the form while the preview was shown: the call had
\* no showInvoice option, rendered, and the store took the draft
C2_Witness ==
    /\ last.op = "input"
    /\ last.synced
    /\ storeWorks
    /\ Get(last.options, "showInvoice") = Undefined
    /\ last.shown
    /\ last.syncTrace = <<"saveDraft", "renderInvoice">>
    /\ draft = JSONstringify(last.returned)

-----------------------------------------------------------------------------
(* The totals *)

\* the sum of the totals of the items, in hundredths
RECURSIVE TotalOfItems(_)
TotalOfItems(items) ==
    IF items = <<>> THEN 0
    ELSE Get(Head(items), "total").n + TotalOfItems(Tail(items))

\* the document the last getDataFromForm or syncFromForm call produced
Collected == last.op \in {"getDataFromForm", "generateBill", "input"}
             /\ IsPlainObject(last.returned)

\* C3: in every document getDataFromForm produces, each item's total is
\* quantity * unitPrice, subtotal is the sum of the item totals, taxAmount
\* is subtotal * taxRate / 100, total is subtotal + taxAmount - discount
\* and balanceDue is total, without clamping; one item 2 x 1000 with tax 10
\* and discount 100 gives 2000, 200, 2100 and 2100.  Numbers are in
\* hundredths, so a product of two carries a factor 100.
C3_Totals ==
    Collected =>
        LET items == Get(last.returned, "items").e
            totals == Get(last.returned, "totals")
            subtotal == Get(totals, "subtotal").n
            taxRate == Get(totals, "taxRate").n
            taxAmount == Get(totals, "taxAmount").n
            discount == Get(totals, "discount").n
            total == Get(totals, "total").n
            Typed100(text) == IF text.t = "numeral" THEN text.n ELSE 0
        IN  /\ Len(items) = Len(rows)
            /\ \A i \in DOMAIN items :
                  /\ Get(items[i], "quantity").n = Typed100(rows[i].quantity)
                  /\ Get(items[i], "unitPrice").n = Typed100(rows[i].unitPrice)
                  /\ Get(items[i], "total").n * 100
                       = Get(items[i], "quantity").n * Get(items[i], "unitPrice").n
            /\ taxRate = Typed100(form.taxRate)
            /\ discount = Typed100(form.discountAmount)
            /\ subtotal = TotalOfItems(items)
            /\ taxAmount * 100 * 100 = subtotal * taxRate
            /\ total = subtotal + taxAmount - discount
            /\ Get(totals, "balanceDue") = Get(totals, "total")
            /\ (/\ Len(rows) = 1
                /\ rows[1].quantity = Numeral(2)
                /\ rows[1].unitPrice = Numeral(1000)
                /\ form.taxRate = Numeral(10)
                /\ form.discountAmount = Numeral(100))
               => /\ Get(totals, "subtotal") = Num(2000)
                  /\ Get(totals, "taxAmount") = Num(200)
                  /\ Get(totals, "total") = Num(2100)
                  /\ Get(totals, "balanceDue") = Num(2100)

\* a document was collected whose discount exceeds subtotal plus tax: its
\* total is negative
C3_Witness ==
    /\ last.op = "getDataFromForm"
    /\ Get(Get(last.returned, "totals"), "subtotal").n > 0
    /\ Get(Get(last.returned, "totals"), "taxAmount").n > 0
    /\ Get(Get(last.returned, "totals"), "total").n < 0

-----------------------------------------------------------------------------
(* The item rows *)

\* the row of { description: '', quantity: 1, unitPrice: 0 }
DefaultRowTexts ==
    [description |-> JStr(""), quantity |-> Numeral(1), unitPrice |-> Numeral(0)]

-----------------------------------------------------------------------------
(* The validation gate *)

NonEmpty(v) == v.t \in {"string", "numeral", "isotime"} /\ v # JStr("")

\* what the validation gate asks of a document
C8_Required(d) ==
    /\ NonEmpty(Get(Get(d, "seller"), "name"))
    /\ NonEmpty(Get(Get(d, "seller"), "address"))
    /\ NonEmpty(Get(Get(d, "billTo"), "name"))
    /\ NonEmpty(Get(Get(d, "billTo"), "address"))
    /\ NonEmpty(Get(Get(d, "invoice"), "date"))
    /\ NonEmpty(Get(Get(d, "invoice"), "number"))
    /\ Get(d, "items").t = "array"
    /\ Len(Get(d, "items").e) >= 1
    /\ \E i \in DOMAIN Get(d, "items").e :
          LET item == Get(d, "items").e[i]
          IN  /\ NonEmpty(Get(item, "description"))
              /\ Get(item, "quantity").t = "number"
              /\ Get(item, "quantity").n > 0
              /\ Get(item, "unitPrice").t = "number"
              /\ Get(item, "unitPrice").n >= 0

\* C8: validateData(document) is true if and only if seller name and
\* address, billTo name and address, invoice date and number are non-empty,
\* items is a non-empty array and some item has a non-empty description,
\* quantity > 0 and unitPrice >= 0; generateBill on a document that fails
\* shows one alert and does not render the preview.
C8_ValidationGate ==
    /\ last.op = "validateData"
         => last.returned = JBool(C8_Required(last.arg))
    /\ last.op = "generateBill"
         => /\ C8_Required(last.returned)
                 <=> (\A i \in DOMAIN last.trace : last.trace[i] # "alert")
            /\ ~C8_Required(last.returned)
                 => /\ last.alerts = 1
                    /\ \A i \in DOMAIN last.trace : last.trace[i] # "renderInvoice"
                    /\ ~visible

\* generateBill ran on a form whose only defect is the empty billTo address
C8_Witness ==
    /\ last.op = "generateBill"
    /\ last.alerts = 1
    /\ form.billToAddress = JStr("")
    /\ C8_Required(Put(last.returned, "billTo",
                       Put(Get(last.returned, "billTo"), "address", JStr("2 Side St"))))

-----------------------------------------------------------------------------
(* Invalid input *)

\* C9: a generateBill call whose document fails validateData leaves the
\* draft, the history, the last-number slot and the visibility of the
\* preview as they were; an importJsonData call with unparseable JSON
\* leaves the form fields, the draft and the history unchanged and does not
\* invoke the sync callback.
C9_InvalidInputMutatesNothing ==
    [][/\ (last'.op = "generateBill" /\ last'.alerts = 1)
            => /\ draft' = draft
               /\ history' = history
               /\ lastNumber' = lastNumber
               /\ visible' = visible
       /\ (last'.op = "importJson" /\ Truthy(trim(jsonData)) /\ ~IsJsonText(jsonData))
            => /\ form' = form
               /\ rows' = rows
               /\ draft' = draft
               /\ history' = history
               /\ ~last'.synced]_vars

-----------------------------------------------------------------------------
(* Partial import *)

\* where the document keeps the value of a form field
FieldPath ==
    [id \in FieldIds |->
        CASE id = "sellerName" -> <<"seller", "name">>
          [] id = "sellerAddress" -> <<"seller", "address">>
          [] id = "sellerEmail" -> <<"seller", "email">>
          [] id = "sellerPhone" -> <<"seller", "phone">>
          [] id = "billToName" -> <<"billTo", "name">>
          [] id = "billToAddress" -> <<"billTo", "address">>
          [] id = "billToEmail" -> <<"billTo", "email">>
          [] id = "billToPhone" -> <<"billTo", "phone">>
          [] id = "invoiceTitle" -> <<"invoice", "title">>
          [] id = "invoiceDate" -> <<"invoice", "date">>
          [] id = "invoiceDueDate" -> <<"invoice", "dueDate">>
          [] id = "invoiceNumber" -> <<"invoice", "number">>
          [] id = "invoiceNotes" -> <<"invoice", "notes">>
          [] id = "invoiceInstructions" -> <<"invoice", "instructions">>
          [] id = "currencyCode" -> <<"settings", "currency">>
          [] id = "taxRate" -> <<"totals", "taxRate">>
          [] OTHER -> <<"totals", "discount">>]

\* the attribute of the JSON document that belongs to a form field
Attribute(doc, id) == Get(Get(doc, FieldPath[id][1]), FieldPath[id][2])

\* C10: after a successful importJsonData of a partial document every form
\* field whose attribute is present in the JSON holds the imported value,
\* every form field whose attribute is absent keeps the value it had, the
\* rows are those of the imported items, the preview is rendered and the
\* persisted draft has meta.showInvoice = true.
C10_PartialImport ==
    [][(/\ last'.op = "importJson"
        /\ IsJsonText(jsonData)
        /\ IsPlainObject(JSONparse(jsonData))
        /\ storeWorks)
          => LET doc == JSONparse(jsonData)
             IN  /\ \A id \in FieldIds :
                       form'[id] = IF Attribute(doc, id) = Undefined THEN form[id]
                                   ELSE ToText(Attribute(doc, id))
                 /\ IsArray(Get(doc, "items")) /\ Len(Get(doc, "items").e) >= 1
                       => /\ Len(rows') = Len(Get(doc, "items").e)
                          /\ \A i \in DOMAIN rows' :
                                rows'[i].description
                                  = Get(Get(doc, "items").e[i], "description")
                 /\ visible'
                 /\ \E i \in DOMAIN last'.trace : last'.trace[i] = "renderInvoice"
                 /\ IsJsonText(draft')
                 /\ Get(Get(JSONparse(draft'), "meta"), "showInvoice") = JBool(TRUE)]_vars

-----------------------------------------------------------------------------
(* Round trips *)

\* a document as JSON carries it, with meta.updatedAt blanked
SansUpdatedAt(doc) ==
    ToJson(Put(doc, "meta", Put(Get(doc, "meta"), "updatedAt", JNull)))

\* the document getDataFromForm would collect from the form after the step
CollectedNext == getDataFromForm(form', rows', visible', now')

\* the step imports the downloaded file onto the form a confirmed reset
\* left, the file having been downloaded right before the reset
ReimportStep ==
    /\ last.op = "resetDraft"
    /\ last.arg = JBool(TRUE)
    /\ Len(last.before) >= 1
    /\ last.before[Len(last.before)].op = "downloadJson"
    /\ last'.op = "importFile"
    /\ last'.arg = file
    /\ Truthy(file)

\* C11: when the document D that syncFromForm exported is imported as JSON
\* onto a freshly reset form, the document collected from the form
\* afterwards equals D in every field except meta.updatedAt.
C11_RoundTrip ==
    [][ReimportStep => SansUpdatedAt(CollectedNext) = SansUpdatedAt(JSONparse(file))]_vars

\* C12: two consecutive syncFromForm calls with the same options and no
\* form edit in between return documents that are equal in every field
\* except meta.updatedAt, for every combination of options, render: true on
\* a hidden preview included.
C12_SyncIdempotent ==
    [][(/\ last.op = "syncFromForm"
        /\ last'.op = "syncFromForm"
        /\ last'.options = last.options)
          => SansUpdatedAt(last'.returned) = SansUpdatedAt(last.returned)]_vars

-----------------------------------------------------------------------------
(* The bank details of older drafts *)

\* absent or empty
Blank(v) == v \in {Undefined, JNull, JStr("")}

\* the lines for the non-empty ones of accountNo, ifsc and name
BankLines(bank) ==
    (IF Blank(Get(bank, "accountNo")) THEN <<>>
     ELSE <<[label |-> "A/c no", value |-> Get(bank, "accountNo")]>>)
    \o (IF Blank(Get(bank, "ifsc")) THEN <<>>
        ELSE <<[label |-> "IFSC", value |-> Get(bank, "ifsc")]>>)
    \o (IF Blank(Get(bank, "name")) THEN <<>>
        ELSE <<[label |-> "Name", value |-> Get(bank, "name")]>>)

\* C13: applyDataToForm folds seller.bank into the instructions field
\* exactly when invoice.instructions and invoice.terms are both absent or
\* empty: the field then holds "Please send payment to below bank account."
\* followed by one line for each non-empty one of accountNo, ifsc and name;
\* whenever instructions or terms is non-empty the field holds that text
\* and the bank details are ignored.
C13_BankFolding ==
    (last.op = "init" /\ IsJsonText(last.arg)) =>
        LET data == JSONparse(last.arg)
            instructions == Get(Get(data, "invoice"), "instructions")
            terms == Get(Get(data, "invoice"), "terms")
            bank == Get(Get(data, "seller"), "bank")
            field == form.invoiceInstructions
        IN  /\ (Blank(instructions) /\ Blank(terms) /\ BankLines(bank) # <<>>)
                  => field = [t |-> "string",
                              s |-> "Please send payment to below bank account.",
                              lines |-> BankLines(bank)]
            /\ (Blank(instructions) /\ Blank(terms) /\ BankLines(bank) = <<>>)
                  => field = JStr("")
            /\ (~Blank(instructions) \/ ~Blank(terms))
                  => field \in {instructions, terms} \ {Undefined, JStr("")}

-----------------------------------------------------------------------------
(* A store that refuses writes *)

\* the handler of the last event had this effect
Did(effect) == \E i \in DOMAIN last.trace : last.trace[i] = effect

\* C14: when localStorage.setItem throws, syncFromForm still returns the
\* document and still renders when render is requested, and generateBill on
\* a valid document still renders the preview and still attempts the
\* history save, no exception reaching the event handler.
C14_StoreFailureHarmless ==
    ~storeWorks =>
        /\ last.synced =>
              /\ IsPlainObject(last.returned)
              /\ Truthy(Get(last.options, "render"))
                    => \E i \in DOMAIN last.syncTrace :
                          last.syncTrace[i] = "renderInvoice"
        /\ (last.op = "generateBill" /\ validateData(last.returned))
              => /\ Did("renderInvoice")
                 /\ visible
                 /\ Did("saveToHistory")
                 /\ ~Did("throw")

-----------------------------------------------------------------------------
(* The PDF buttons *)

\* the last step completed a downloadPDF or shareInvoice call
Completed(op) == last.op = op /\ last.arg # JStr("pending")

\* C15: once downloadPDF or shareInvoice has completed, whatever the
\* outcome, the triggering button is enabled again and shows its idle
\* label; a failure has shown exactly one error message, and a share the
\* user cancelled (AbortError), like a success, none.
C15_ButtonsRestored ==
    /\ Completed("downloadPDF")
          => /\ pdf.downloadBtn = [textContent |-> DownloadLabel, disabled |-> FALSE]
             /\ last.alerts = IF last.arg \in {JStr("failure"), JStr("unavailable")}
                              THEN 1 ELSE 0
    /\ Completed("shareInvoice")
          => /\ pdf.shareBtn = [textContent |-> ShareLabel, disabled |-> FALSE]
             /\ last.alerts = IF last.arg = JStr("failure") THEN 1 ELSE 0

-----------------------------------------------------------------------------
(* Reset *)

\* the text fields hold what resetDraft gives them
FieldsAtDefaults ==
    /\ \A id \in {"sellerName", "sellerAddress", "sellerEmail", "sellerPhone",
                   "billToName", "billToAddress", "billToEmail", "billToPhone",
                   "invoiceDueDate", "invoiceNotes", "invoiceInstructions"} :
          form[id] = JStr("")
    /\ form.invoiceTitle = JStr("INVOICE")
    /\ form.currencyCode = JStr("INR")
    /\ form.taxRate = Numeral(0)
    /\ form.discountAmount = Numeral(0)

\* the last event was a reset the user confirmed
ResetDone == last.op = "resetDraft" /\ last.arg = JBool(TRUE)

\* a declined reset leaves the draft, the form and the preview alone
DeclinedResetKeeps ==
    (last'.op = "resetDraft" /\ last'.arg = JBool(FALSE))
        => /\ draft' = draft
           /\ form' = form
           /\ rows' = rows
           /\ visible' = visible
           /\ preview' = preview

\* C16 as stated: after a confirmed resetDraft has completed the draft slot
\* is cleared (holds no document), the preview is hidden and the text
\* fields are back to their defaults; after a declined confirmation the
\* draft, the form and the preview are unchanged.
C16_Original ==
    /\ [](ResetDone => (draft = JNull /\ ~visible /\ FieldsAtDefaults))
    /\ [][DeclinedResetKeeps]_vars

\* C16 (amended): a confirmed resetDraft removes the stored draft and then
\* stores the document of the reset form, so that afterwards the slot
\* holds exactly the document collected from the default fields and one
\* default row, with meta.showInvoice false (and nothing at all when the
\* store refuses the write); the preview is hidden and the text fields are
\* back to their defaults; after a declined confirmation the draft, the
\* form and the preview are unchanged.
C16_ResetStoresDefaults ==
    /\ [](ResetDone =>
            /\ ~visible
            /\ FieldsAtDefaults
            /\ rows = <<DefaultRowTexts>>
            /\ ~storeWorks => draft = JNull
            /\ storeWorks =>
                  /\ draft = JSONstringify(last.returned)
                  /\ SansUpdatedAt(JSONparse(draft))
                        = SansUpdatedAt(getDataFromForm(form, rows, FALSE, 0)))
    /\ [][DeclinedResetKeeps]_vars

\* a page that showed the billed invoice 7 was reset: the slot holds the
\* blank document with the next number
C16_Witness ==
    /\ ResetDone
    /\ storeWorks
    /\ lastNumber = Numeral(7)
    /\ IsJsonText(draft)
    /\ Get(Get(JSONparse(draft), "seller"), "name") = JStr("")
    /\ Get(Get(JSONparse(draft), "invoice"), "number") = Numeral(8)
    /\ Get(Get(JSONparse(draft), "meta"), "showInvoice") = JBool(FALSE)

-----------------------------------------------------------------------------
(* The last invoice number *)

\* the step is a generateBill whose document passed validateData
BilledStep == last'.op = "generateBill" /\ validateData(last'.returned)

\* the invoice number of that document
BilledNumber == Get(Get(last'.returned, "invoice"), "number")

\* the step is a reset the user confirmed
ResetStep == last'.op = "resetDraft" /\ last'.arg = JBool(TRUE)

\* C17 as stated: the last-number slot always holds the invoice number of
\* the most recent generateBill that passed validation and is absent if
\* there was none; a confirmed reset sets the form's invoice number to that
\* number + 1, or to 1 when the slot is absent.
C17_Original ==
    [][/\ BilledStep => lastNumber' = BilledNumber
       /\ ~BilledStep => lastNumber' = lastNumber
       /\ ResetStep =>
             IF lastNumber = JNull THEN form'.invoiceNumber = Numeral(1)
             ELSE /\ lastNumber.t = "numeral"
                  /\ form'.invoiceNumber = JNumeral(lastNumber.n + 100)]_vars

\* C17 (amended): while the store accepts writes, the last-number slot
\* holds the invoice number of the most recent generateBill that passed
\* validation, and no other event changes the slot (a bill on a store
\* that refuses the write leaves it as it was); a confirmed reset sets the
\* form's invoice number to n + 1 when the slot holds the numeral n, and to
\* 1 when the slot is absent or holds a text that is no number.
C17_LastNumber ==
    [][/\ (BilledStep /\ storeWorks) => lastNumber' = BilledNumber
       /\ ~(BilledStep /\ storeWorks) => lastNumber' = lastNumber
       /\ ResetStep =>
             form'.invoiceNumber = IF lastNumber.t = "numeral"
                                   THEN JNumeral(lastNumber.n + 100)
                                   ELSE Numeral(1)]_vars

\* invoice 7 was billed and the reset that followed proposes number 8
C17_Witness ==
    /\ ResetDone
    /\ Len(last.before) >= 1
    /\ last.before[Len(last.before)].op = "generateBill"
    /\ lastNumber = Numeral(7)
    /\ form.invoiceNumber = Numeral(8)

-----------------------------------------------------------------------------
(* Loading from the history *)

\* the positions of the stored entries the step's loadFromHistory names
Named == {i \in DOMAIN getHistory(history) :
             Get(getHistory(history)[i], "id") = last'.arg}

\* the first of them, JNull if there is none
EntryLoaded ==
    IF Named = {} THEN JNull
    ELSE getHistory(history)[CHOOSE i \in Named : \A j \in Named : i <= j]

\* C18: loadFromHistory with the id of an entry restores the form: the
\* document collected from the form afterwards equals the entry's stored
\* document in every field except meta.updatedAt, and the draft slot holds
\* that document, whatever happened to the form since the bill (a
\* confirmed reset included); with an id that matches no entry nothing
\* changes.
C18_LoadRestores ==
    [][last'.op = "loadFromHistory" =>
          IF EntryLoaded = JNull
          THEN UNCHANGED <<form, rows, visible, preview, draft, lastNumber,
                           history, jsonData>>
          ELSE /\ SansUpdatedAt(CollectedNext)
                    = SansUpdatedAt(Get(EntryLoaded, "data"))
               /\ IsJsonText(draft')
               /\ SansUpdatedAt(JSONparse(draft'))
                    = SansUpdatedAt(Get(EntryLoaded, "data"))]_vars

\* the form with blanks and the number INV-A was billed, a confirmed reset
\* blanked it, and the entry was loaded back
C18_Witness ==
    /\ last.op = "loadFromHistory"
    /\ last.synced
    /\ Len(last.before) = 3
    /\ last.before[2].op = "generateBill"
    /\ last.before[3] = [op |-> "resetDraft", arg |-> JBool(TRUE)]
    /\ form.invoiceNumber = JStr("INV-A")
    /\ form.sellerName = JStr("Acme")
    /\ Len(rows) = 2
    /\ visible

-----------------------------------------------------------------------------
(* Form, preview and draft agree *)

\* the items and the totals of a document, as JSON
Numbers(doc) == [items |-> ToJson(Get(doc, "items")),
                 totals |-> ToJson(Get(doc, "totals"))]

-----------------------------------------------------------------------------
(* The order of the history *)

\* the ids of the persisted entries, first entry first
HistoryIds ==
    [i \in DOMAIN getHistory(history) |-> Get(getHistory(history)[i], "id").n]

\* C20: after any sequence of saves (re-saving a number that has an entry
\* included) and deletes, the persisted history is ordered most recently
\* saved first: no entry comes before one with a greater id, so the entry
\* a save beyond the cap drops is the least recently saved one. Entries
\* saved within the same millisecond share their id and may come in either
\* order.
C20_NewestFirst ==
    \A i, j \in DOMAIN HistoryIds : i < j => HistoryIds[i] >= HistoryIds[j]

-----------------------------------------------------------------------------
(* The ids of the history *)

\* C21: no two entries of the persisted history share an id, for any
\* sequence of saves and any clock readings, two saves with different
\* invoice numbers in the same millisecond included; so deleteFromHistory(id)
\* removes at most one entry and getHistoryEntry(id) identifies exactly one.
C21_UniqueIds ==
    \A i, j \in DOMAIN HistoryIds : i # j => HistoryIds[i] # HistoryIds[j]

-----------------------------------------------------------------------------
(* The simple deepMerge against the merge it is described as *)

\* the plain object target holds at key k, an empty object if it holds none
ObjectAt(target, k) ==
    IF k \in OwnKeys(target) /\ IsPlainObject(target.f[k]) THEN target.f[k]
    ELSE EmptyObject

\* The merge as described, on plain objects: array fields replace, plain
\* object fields merge into the plain object the target has there (an empty
\* one if it has none), scalars and null overwrite, the other keys stay,
\* and a source that is no plain object changes nothing.
RECURSIVE ReferenceMerge(_, _)
ReferenceMerge(target, source) ==
    IF ~IsPlainObject(source) THEN target
    ELSE JObj([k \in OwnKeys(target) \cup OwnKeys(source) |->
                 IF k \notin OwnKeys(source) THEN target.f[k]
                 ELSE IF IsArray(source.f[k]) THEN JArr(source.f[k].e)
                 ELSE IF IsPlainObject(source.f[k])
                 THEN ReferenceMerge(ObjectAt(target, k), source.f[k])
                 ELSE source.f[k]])

\* what the target holds at key k when that is an object in the sense of
\* typeof (a plain object or an array), an empty object otherwise
ObjectLikeAt(target, k) ==
    IF k \in EnumerableKeys(target) /\ IsObjectLike(Read(target, k))
    THEN Read(target, k) ELSE EmptyObject

\* The same merge with typeof's notion of object: an array counts as an
\* object, as a source (its indices are its keys) and as what the target
\* holds (it is kept and receives the source's keys as properties).
RECURSIVE TypeofMerge(_, _)
TypeofMerge(target, source) ==
    IF ~IsObjectLike(source) THEN target
    ELSE LET Field(k) ==
                 IF k \notin EnumerableKeys(source) THEN Read(target, k)
                 ELSE IF IsArray(Read(source, k)) THEN JArr(Read(source, k).e)
                 ELSE IF IsPlainObject(Read(source, k))
                 THEN TypeofMerge(ObjectLikeAt(target, k), Read(source, k))
                 ELSE Read(source, k)
         IN  IF IsArray(target)
             THEN ArrayWith(target.e,
                            [k \in DOMAIN NamedProps(target)
                                      \cup EnumerableKeys(source) |-> Field(k)])
             ELSE JObj([k \in OwnKeys(target) \cup EnumerableKeys(source) |->
                          Field(k)])

\* a finished call of the simple deepMerge with a source free of unsafe keys
SafeSimpleMerge ==
    merge.done /\ variant = "simple" /\ ~UnsafeKeyAnywhere(merge.source)

-----------------------------------------------------------------------------
(* The strict deepMerge against the simple one *)

\* C23: on every source that has none of the three unsafe names as a key
\* anywhere, the strict deepMerge leaves the target as the simple deepMerge
\* does: a plain-object-valued source field is merged recursively and never
\* skipped.
C23_StrictAgreesOnSafe ==
    (merge.done /\ variant = "strict" /\ ~UnsafeKeyAnywhere(merge.source)) =>
        merge.result = deepMerge(merge.target, merge.source, EmptyObject, FALSE).o

-----------------------------------------------------------------------------
(* Who writes the draft slot *)

\* the places of a trace at which the draft key is written or removed
DraftWrites(trace) ==
    {i \in DOMAIN trace : trace[i] \in {"saveDraft", "clearDraft"}}

\* C24: every write to or removal of the draft key during an event happens
\* inside the event's syncFromForm call; no operation writes or clears the
\* slot directly.
C24_SyncSoleDraftWriter ==
    Cardinality(DraftWrites(last.trace)) = Cardinality(DraftWrites(last.syncTrace))

-----------------------------------------------------------------------------
(* The isApplyingData flag *)

\* the writes of the flag among the first i - 1 effects of the event
FlagWritesBefore(i) ==
    {j \in 1..(i - 1) : last.trace[j] \in {"isApplyingData = true",
                                           "isApplyingData = false"}}

\* the flag when effect i of the event happens: what the last write before
\* it left, and false (its value between events) if there was none
FlagAt(i) ==
    /\ FlagWritesBefore(i) # {}
    /\ last.trace[CHOOSE j \in FlagWritesBefore(i) :
                     \A k \in FlagWritesBefore(i) : k <= j] = "isApplyingData = true"

\* C25: during JSON import, history load and the draft restore of init
\* the flag isApplyingData is true while applyDataToForm writes the fields
\* and the item rows, and it is false again once the operation has
\* completed.
C25_FlagCoversApply ==
    /\ ~isApplyingData
    /\ \A i \in DOMAIN last.trace : last.trace[i] = "applyFields" => FlagAt(i)

-----------------------------------------------------------------------------
(* Deleting from the history *)

\* the places of the persisted history that hold the id of the step's delete
Deleted == {i \in DOMAIN HistoryIds : JNum(HistoryIds[i]) = last'.arg}

\* the list h without its place r
Without(h, r) == [i \in 1..(Len(h) - 1) |-> IF i < r THEN h[i] ELSE h[i + 1]]

\* C26: deleteFromHistory(id) removes the entry with that id and leaves
\* every other entry, and the order of the entries that remain, unchanged;
\* when no entry has that id the history is unchanged.
C26_DeleteRemovesOne ==
    [][last'.op = "deleteFromHistory" =>
          /\ \A i \in DOMAIN getHistory(history') :
                 Get(getHistory(history')[i], "id") # last'.arg
          /\ IF Deleted = {} THEN getHistory(history') = getHistory(history)
             ELSE \E r \in Deleted :
                     getHistory(history') = Without(getHistory(history), r)]_vars

-----------------------------------------------------------------------------
(* The stored visibility *)

\* meta.showInvoice of the persisted draft
DraftShowInvoice == Get(Get(JSONparse(draft), "meta"), "showInvoice")

\* C27: in every state between events, with a store that accepts writes,
\* the persisted draft's meta.showInvoice is true if and only if the
\* preview is shown, so that a reload shows the preview exactly when it was
\* visible before.
C27_DraftVisibilityMatches ==
    (storeWorks /\ IsJsonText(draft)) => (Truthy(DraftShowInvoice) <=> visible)

-----------------------------------------------------------------------------
(* What the history holds *)

\* the entries of the persisted history, as JSON.parse gives them back
PersistedEntries == ToJson(JArr(getHistory(history))).e

\* the entry is the snapshot of a bill that passed validation
BillSnapshot(e) ==
    LET data == Get(e, "data")
    IN  /\ validateData(data)
        /\ Truthy(Get(Get(data, "invoice"), "number"))
        /\ Get(Get(data, "meta"), "showInvoice") = JBool(TRUE)
        /\ Get(e, "number") = Get(Get(data, "invoice"), "number")
        /\ Get(e, "customerName") = Get(Get(data, "billTo"), "name")
        /\ Get(e, "total") = Get(Get(data, "totals"), "total")
        /\ Get(e, "currency") = Get(Get(data, "settings"), "currency")

\* the invoice number of the document the event's sync returned
BilledNow == Get(Get(last.returned, "invoice"), "number")

\* C28: every entry of the persisted history is a snapshot of a validated
\* bill: its data passes validateData, its invoice number is not empty,
\* its data.meta.showInvoice is true, and its summary fields number,
\* customerName, total and currency equal data.invoice.number,
\* data.billTo.name, data.totals.total and data.settings.currency.
C28_EntriesAreBills ==
    \A i \in DOMAIN PersistedEntries : BillSnapshot(PersistedEntries[i])

\* a bill was just saved next to an older entry
C28_Witness ==
    /\ last.op = "generateBill"
    /\ Did("saveToHistory")
    /\ Len(PersistedEntries) = 2
    /\ Get(PersistedEntries[1], "number") = ToJson(BilledNow)

-----------------------------------------------------------------------------
(* The template of the PDF *)

\* the template the id names: the minimal one for "minimal", the default
\* one for "default", for an unknown id and for no id
TemplateNamed(id) ==
    IF id = JStr("minimal") THEN "MinimalTemplate" ELSE "DefaultTemplate"

\* the event before the last one
Previous == last.before[Len(last.before)]

\* the document the event before the last one put on the form: the JSON
\* text imported, or the data of the history entry loaded
DocumentBrought ==
    IF Previous.op = "importJson" THEN JSONparse(Previous.arg)
    ELSE Get(getHistoryEntry([history |-> history], Previous.arg), "data")

\* C29: the PDF export uses the template named by the document's
\* settings.templateId and the default template when the id is missing or
\* unknown: a PDF exported right after a document was imported or loaded
\* from the history is laid out with the template that document names.
C29_TemplateOfDocument ==
    (/\ last.op = "downloadPDF"
     /\ Len(last.before) >= 1
     /\ Previous.op \in {"importJson", "loadFromHistory"})
    => last.template
         = TemplateNamed(Get(Get(DocumentBrought, "settings"), "templateId"))

-----------------------------------------------------------------------------
(* Stored data that is not JSON *)

\* the slot holds a text that JSON.parse rejects
Malformed(slot) == Truthy(slot) /\ slot.t = "string" /\ ~IsJsonText(slot)

\* the page init leaves when it finds no draft
InitWithoutDraft == init([Begin("init", draft) EXCEPT !.draft = JNull], now)

\* the invoice number init seeds: the one the form has, and for an empty
\* one the number after the last-number slot's
SeededNumber ==
    IF Truthy(form.invoiceNumber) \/ ~Truthy(lastNumber) THEN form.invoiceNumber
    ELSE IF lastNumber.t = "numeral" THEN JNumeral(lastNumber.n + 100)
    ELSE Numeral(1)

\* C30: malformed persisted data is treated as absent.  When the draft slot
\* holds a text that is not JSON, init proceeds exactly as with no draft:
\* one default item row, the number seeded from the last-number slot, the
\* preview hidden.  When the history slot holds a text that is not JSON,
\* the next saveToHistory stores a history of one entry.
C30_MalformedIsAbsent ==
    [][/\ (last'.op = "init" /\ Malformed(draft)) =>
             /\ rows' = <<addItemRow(DefaultItem)>>
             /\ form'.invoiceNumber = SeededNumber
             /\ ~visible'
             /\ last'.alerts = 0
             /\ form' = InitWithoutDraft.form
             /\ rows' = InitWithoutDraft.rows
             /\ visible' = InitWithoutDraft.visible
             /\ preview' = InitWithoutDraft.preview
             /\ draft' = InitWithoutDraft.draft
             /\ <<history', lastNumber'>> = <<history, lastNumber>>
       /\ (/\ last'.op = "generateBill"
           /\ \E i \in DOMAIN last'.trace : last'.trace[i] = "saveToHistory"
           /\ Malformed(history)) =>
             /\ Len(getHistory(history')) = 1
             /\ Get(getHistory(history')[1], "data") = last'.returned]_vars

\* init has run over a draft slot and a history slot that hold cut-off
\* texts, with 7 in the last-number slot and no number in the form: one
\* default row, number 8, preview hidden
C30_Witness ==
    /\ last.op = "init"
    /\ Malformed(last.arg)
    /\ Malformed(history)
    /\ rows = <<addItemRow(DefaultItem)>>
    /\ form.invoiceNumber = Numeral(8)
    /\ form.sellerName = SampleForm.sellerName
    /\ ~visible

====
